---- MODULE Spec2Model ----
(***************************************************************************)
(* CleftMeter 1.0 (src/v1.0/CleftMeter_v1.0.py): the landmark registry,    *)
(* the measurement definitions and their evaluation, and the text codec    *)
(* of class STLViewer, as a state machine.                                 *)
(*                                                                         *)
(* Text is modelled character by character: a string is a sequence of      *)
(* one-character strings, a file is a sequence of lines.  Coordinates are  *)
(* whole numbers; results are the character strings the program formats.   *)
(* Rendering (actors, colours, panels, prompts) is left out.               *)
(***************************************************************************)
EXTENDS Integers, Sequences, FiniteSets, TLC

VARIABLES
    all_labels_in_order,      \* self.all_labels_in_order: sequence of labels
    points,                   \* self.points: per index, the pos_or_status component
    point_count,              \* self.point_count: the cursor
    distance_definitions,     \* self.distance_definitions: sequence of label tuples
    distances,                \* self.distances: dict definition -> result string
    angle_definitions,        \* self.angle_definitions
    angles,                   \* self.angles
    selected_point_index,     \* <<>> for None, <<i>> for index i (0-based)
    selected_distance_index,
    selected_angle_index,
    currently_highlighted_point_index,
    unsaved_changes,
    actor,                    \* TRUE when an STL model is loaded (self.actor)
    disk,                     \* the points file next to the STL: NoFile or its content
    last,                     \* the handler that ran last and how it ended
    nops                      \* number of handler calls so far

vars == <<all_labels_in_order, points, point_count, distance_definitions, distances,
          angle_definitions, angles, selected_point_index, selected_distance_index,
          selected_angle_index, currently_highlighted_point_index, unsaved_changes,
          actor, disk, last, nops>>

(***************************************************************************)
(* Bounds of the exploration.                                              *)
(***************************************************************************)
MaxOps == 3      \* handler calls per behaviour
MaxPick == 2     \* list rows 0..MaxPick-1 are the ones the operator clicks

(***************************************************************************)
(* Python str operations on character sequences.                           *)
(***************************************************************************)
TAB == "\t"
Whitespace == {" ", TAB}

UpperLetters ==
    <<"A","B","C","D","E","F","G","H","I","J","K","L","M",
      "N","O","P","Q","R","S","T","U","V","W","X","Y","Z">>
LowerLetters ==
    <<"a","b","c","d","e","f","g","h","i","j","k","l","m",
      "n","o","p","q","r","s","t","u","v","w","x","y","z">>

ToLower == [c \in {UpperLetters[i] : i \in DOMAIN UpperLetters} |->
               LowerLetters[CHOOSE i \in DOMAIN UpperLetters : UpperLetters[i] = c]]
ToUpper == [c \in {LowerLetters[i] : i \in DOMAIN LowerLetters} |->
               UpperLetters[CHOOSE i \in DOMAIN LowerLetters : LowerLetters[i] = c]]

LowerChar(c) == IF c \in DOMAIN ToLower THEN ToLower[c] ELSE c
UpperChar(c) == IF c \in DOMAIN ToUpper THEN ToUpper[c] ELSE c

lower(s) == [i \in DOMAIN s |-> LowerChar(s[i])]
upper(s) == [i \in DOMAIN s |-> UpperChar(s[i])]

startswith(s, prefix) ==
    Len(s) >= Len(prefix) /\ SubSeq(s, 1, Len(prefix)) = prefix

Contains(s, c) == \E i \in DOMAIN s : s[i] = c

RECURSIVE lstrip(_)
lstrip(s) ==
    IF s # <<>> /\ Head(s) \in Whitespace THEN lstrip(Tail(s)) ELSE s

RECURSIVE rstrip(_)
rstrip(s) ==
    IF s # <<>> /\ s[Len(s)] \in Whitespace
    THEN rstrip(SubSeq(s, 1, Len(s) - 1)) ELSE s

strip(s) == rstrip(lstrip(s))

\* index (1-based) of the first occurrence of character c in s, 0 if none
RECURSIVE FirstIndexFrom(_, _, _)
FirstIndexFrom(s, c, i) ==
    IF i > Len(s) THEN 0 ELSE IF s[i] = c THEN i ELSE FirstIndexFrom(s, c, i + 1)

FirstIndex(s, c) == FirstIndexFrom(s, c, 1)

\* s.split(sep): every occurrence of the one-character separator splits
RECURSIVE split(_, _)
split(s, sep) ==
    LET i == FirstIndex(s, sep) IN
    IF i = 0 THEN <<s>>
    ELSE <<SubSeq(s, 1, i - 1)>> \o split(SubSeq(s, i + 1, Len(s)), sep)

\* s.split(sep, 1): at most one split
split1(s, sep) ==
    LET i == FirstIndex(s, sep) IN
    IF i = 0 THEN <<s>>
    ELSE <<SubSeq(s, 1, i - 1), SubSeq(s, i + 1, Len(s))>>

\* s.split(): split on runs of whitespace, no empty fields
RECURSIVE splitws(_)
splitws(s) ==
    LET t == lstrip(s) IN
    IF t = <<>> THEN <<>>
    ELSE LET ends == {i \in DOMAIN t : t[i] \in Whitespace}
             n == IF ends = {} THEN Len(t) + 1
                  ELSE CHOOSE i \in ends : \A j \in ends : i <= j
         IN <<SubSeq(t, 1, n - 1)>> \o splitws(SubSeq(t, n, Len(t)))

\* s.replace(c, "")
remove(s, c) == SelectSeq(s, LAMBDA ch : ch # c)

(***************************************************************************)
(* float(str) and the f-string number formats.                             *)
(***************************************************************************)
DigitChars == <<"0","1","2","3","4","5","6","7","8","9">>
DigitValues == [c \in {DigitChars[i] : i \in DOMAIN DigitChars} |->
                   (CHOOSE i \in DOMAIN DigitChars : DigitChars[i] = c) - 1]
IsDigit(c) == c \in DOMAIN DigitValues
DigitValue(c) == DigitValues[c]

AllDigits(s) == \A i \in DOMAIN s : IsDigit(s[i])

RECURSIVE DigitsValue(_)
DigitsValue(s) ==
    IF s = <<>> THEN 0
    ELSE 10 * DigitsValue(SubSeq(s, 1, Len(s) - 1)) + DigitValue(s[Len(s)])

Unsigned(s) == IF s # <<>> /\ Head(s) \in {"+", "-"} THEN Tail(s) ELSE s

\* float(s) succeeds: optional sign, digits with an optional decimal point
\* (exponents, inf and nan are not part of the modelled inputs)
IsFloat(s0) ==
    LET s == Unsigned(strip(s0))
        parts == split(s, ".")
    IN /\ Len(parts) \in {1, 2}
       /\ \A i \in DOMAIN parts : AllDigits(parts[i])
       /\ \E i \in DOMAIN parts : parts[i] # <<>>

\* the value of float(s), for whole numbers (the decimals are zeros)
FloatValue(s0) ==
    LET t == strip(s0)
        neg == t # <<>> /\ Head(t) = "-"
        ip == split(Unsigned(t), ".")[1]
    IN IF neg THEN 0 - DigitsValue(ip) ELSE DigitsValue(ip)

RECURSIVE NatStr(_)
NatStr(n) ==
    IF n < 10 THEN <<DigitChars[n + 1]>>
    ELSE NatStr(n \div 10) \o <<DigitChars[(n % 10) + 1]>>

RECURSIVE Pow10(_)
Pow10(k) == IF k = 0 THEN 1 ELSE 10 * Pow10(k - 1)

RECURSIVE ZeroPad(_, _)
ZeroPad(s, k) == IF Len(s) >= k THEN s ELSE ZeroPad(<<"0">> \o s, k)

\* f"{v:.kf}" for a value of n / 10^k, n >= 0
FormatFixed(n, k) ==
    NatStr(n \div Pow10(k)) \o <<".">> \o ZeroPad(NatStr(n % Pow10(k)), k)

\* f"{c:.6f}" for a whole-number coordinate c
FormatCoord(c) ==
    IF c < 0 THEN <<"-">> \o FormatFixed((0 - c) * Pow10(6), 6)
    ELSE FormatFixed(c * Pow10(6), 6)

(***************************************************************************)
(* Program constants (STLViewer.__init__).                                 *)
(***************************************************************************)
FIXED_LABELS_CLEFT ==
    << <<"I">>, <<"P">>, <<"P","'">>, <<"L">>, <<"L","'">>, <<"C">>, <<"C","'">>,
       <<"Q">>, <<"Q","'">>, <<"T">>, <<"T","'">> >>

DEFAULT_CLEFT_DIST_DEFS ==
    << << <<"I">>, <<"P">> >>,         << <<"I">>, <<"P","'">> >>,
       << <<"I">>, <<"L">> >>,         << <<"I">>, <<"L","'">> >>,
       << <<"I">>, <<"C">> >>,         << <<"I">>, <<"C","'">> >>,
       << <<"I">>, <<"Q">> >>,         << <<"I">>, <<"Q","'">> >>,
       << <<"I">>, <<"T">> >>,         << <<"I">>, <<"T","'">> >>,
       << <<"P">>, <<"L">> >>,         << <<"P","'">>, <<"L","'">> >>,
       << <<"P">>, <<"C">> >>,         << <<"P","'">>, <<"C","'">> >>,
       << <<"P">>, <<"Q">> >>,         << <<"P","'">>, <<"Q","'">> >>,
       << <<"P">>, <<"T">> >>,         << <<"P","'">>, <<"T","'">> >>,
       << <<"P">>, <<"P","'">> >>,     << <<"L">>, <<"L","'">> >>,
       << <<"C">>, <<"C","'">> >>,     << <<"Q">>, <<"Q","'">> >>,
       << <<"T">>, <<"T","'">> >>,
       << <<"I">>, <<"C">>, <<"C","'">> >>,
       << <<"I">>, <<"Q">>, <<"Q","'">> >>,
       << <<"I">>, <<"T">>, <<"T","'">> >> >>

DEFAULT_CLEFT_ANGLE_DEFS ==
    << << <<"I">>, <<"L">>, <<"L","'">> >>, << <<"I">>, <<"L","'">>, <<"L">> >>,
       << <<"I">>, <<"C">>, <<"C","'">> >>, << <<"I">>, <<"C","'">>, <<"C">> >>,
       << <<"I">>, <<"Q">>, <<"Q","'">> >>, << <<"I">>, <<"Q","'">>, <<"Q">> >>,
       << <<"I">>, <<"T">>, <<"T","'">> >>, << <<"I">>, <<"T","'">>, <<"T">> >>,
       << <<"C">>, <<"L">>, <<"P">> >>,     << <<"T">>, <<"C">>, <<"L">> >> >>

(***************************************************************************)
(* Landmark status: the first component of a self.points entry is the      *)
(* string "to_be_defined", the string "skipped" or a coordinate tuple.     *)
(***************************************************************************)
TO_BE_DEFINED == [st |-> "to_be_defined", pos |-> <<>>]
SKIPPED == [st |-> "skipped", pos |-> <<>>]
Defined(pos) == [st |-> "defined", pos |-> pos]
IsTuple(p) == p.st = "defined"          \* isinstance(pos_or_status, tuple)

None == <<>>
Some(i) == <<i>>
InRange(opt, n) == opt # None /\ 0 <= opt[1] /\ opt[1] < n

\* result strings
NA == <<"n","/","a">>
INVALID == <<"i","n","v","a","l","i","d">>
DEGREE == "°"

(***************************************************************************)
(* find_next_undefined_index / find_next_undefined                         *)
(***************************************************************************)
\* a scan that takes every landmark without a coordinate for an undefined one
find_next_undefined_index_not_defined(pts) ==
    LET und == {i \in DOMAIN pts : pts[i].st # "defined"} IN
    IF und = {} THEN None
    ELSE Some((CHOOSE i \in und : \A j \in und : i <= j) - 1)

\* a scan that returns its loop variable, the last index, when nothing is undefined
find_next_undefined_index_last(pts) ==
    LET und == {i \in DOMAIN pts : pts[i].st = "to_be_defined"} IN
    IF und = {} THEN (IF pts = <<>> THEN None ELSE Some(Len(pts) - 1))
    ELSE Some((CHOOSE i \in und : \A j \in und : i <= j) - 1)

find_next_undefined_index(pts) ==
    LET und == {i \in DOMAIN pts : pts[i].st = "to_be_defined"} IN
    IF und = {} THEN None
    ELSE Some((CHOOSE i \in und : \A j \in und : i <= j) - 1)

\* a cursor update without the else branch: point_count is left alone when no
\* landmark is undefined
find_next_undefined_no_else(pts) ==
    LET next_idx == find_next_undefined_index(pts) IN
    IF next_idx # None THEN next_idx[1] ELSE point_count

find_next_undefined(pts) ==
    LET next_idx == find_next_undefined_index(pts) IN
    IF next_idx # None THEN next_idx[1] ELSE Len(pts)

(***************************************************************************)
(* get_index_by_label: list.index, the first occurrence.                   *)
(***************************************************************************)
\* a lookup that answers index 0 for a label the list does not hold
get_index_by_label_zero(labels, label_to_find) ==
    LET hits == {i \in DOMAIN labels : labels[i] = label_to_find} IN
    IF hits = {} THEN Some(0)
    ELSE Some((CHOOSE i \in hits : \A j \in hits : i <= j) - 1)

get_index_by_label(labels, label_to_find) ==
    LET hits == {i \in DOMAIN labels : labels[i] = label_to_find} IN
    IF hits = {} THEN None
    ELSE Some((CHOOSE i \in hits : \A j \in hits : i <= j) - 1)

(***************************************************************************)
(* Numerics of calculate_distances / calculate_angles.                     *)
(***************************************************************************)
RECURSIVE IsqrtSearch(_, _, _)
IsqrtSearch(n, lo, hi) ==          \* lo*lo <= n < hi*hi
    IF hi - lo <= 1 THEN lo
    ELSE LET mid == (lo + hi) \div 2 IN
         IF mid * mid <= n THEN IsqrtSearch(n, mid, hi)
         ELSE IsqrtSearch(n, lo, mid)

Isqrt(n) == IsqrtSearch(n, 0, 46341)

Sub(p, q) == <<p[1] - q[1], p[2] - q[2], p[3] - q[3]>>
Dot(u, v) == u[1] * v[1] + u[2] * v[2] + u[3] * v[3]
Cross(u, v) ==
    <<u[2] * v[3] - u[3] * v[2], u[3] * v[1] - u[1] * v[3], u[1] * v[2] - u[2] * v[1]>>

\* int(1000 * sqrt(num / den)): the thousandths cut off instead of rounded
RoundedRoot1000_truncated(num, den) == Isqrt((1000000 * num) \div den)

\* round(1000 * sqrt(num / den)): the r with (2r-1)^2 <= 4*10^6*num/den < (2r+1)^2
RoundedRoot1000(num, den) == (Isqrt((4000000 * num) \div den) + 1) \div 2

RECURSIVE GCD(_, _)
GCD(a, b) == IF b = 0 THEN a ELSE GCD(b, a % b)

\* round(100 * degrees(acos(c))) for c = sgn * sqrt(num / den), num/den in lowest
\* terms: the values math.acos gives on the cosines the modelled coordinates produce
AcosDegrees100(sgn, num, den) ==
    CASE sgn = 0 -> 9000
      [] sgn = -1 /\ num = 1 /\ den = 1 -> 18000
      [] sgn = -1 /\ num = 1 /\ den = 11 -> 10755
      [] sgn = -1 /\ num = 2 /\ den = 7 -> 12231
      [] sgn = 1 /\ num = 1 /\ den = 1 -> 0
      [] sgn = 1 /\ num = 1 /\ den = 10 -> 7157
      [] sgn = 1 /\ num = 1 /\ den = 14 -> 7450
      [] sgn = 1 /\ num = 2 /\ den = 7 -> 5769
      [] sgn = 1 /\ num = 2 /\ den = 55 -> 7901
      [] sgn = 1 /\ num = 4 /\ den = 17 -> 6098
      [] sgn = 1 /\ num = 8 /\ den = 85 -> 7213
      [] sgn = 1 /\ num = 9 /\ den = 10 -> 1843
      [] sgn = 1 /\ num = 9 /\ den = 19 -> 4651
      [] sgn = 1 /\ num = 16 /\ den = 25 -> 3687
      [] sgn = 1 /\ num = 18 /\ den = 95 -> 6420
      [] sgn = 1 /\ num = 32 /\ den = 85 -> 5215
      [] sgn = 1 /\ num = 72 /\ den = 77 -> 1476
      [] sgn = 1 /\ num = 81 /\ den = 187 -> 4884
      [] sgn = 1 /\ num = 121 /\ den = 238 -> 4452
      [] sgn = 1 /\ num = 128 /\ den = 133 -> 1118
      [] sgn = 1 /\ num = 169 /\ den = 209 -> 2594
      [] sgn = 1 /\ num = 169 /\ den = 323 -> 4367

\* the coordinate of the landmark a label names, when it is Defined
LabelIsDefined(labels, pts, label) ==
    LET idx == get_index_by_label(labels, label) IN
    /\ idx # None /\ idx[1] < Len(pts)
    /\ IsTuple(pts[idx[1] + 1])

LabelPos(labels, pts, label) == pts[get_index_by_label(labels, label)[1] + 1].pos

\* a point-line branch without the test of the line length: the division by a
\* zero norm gives "nan"
DistanceValue_no_guard(labels, pts, definition) ==
    IF Len(definition) = 2 THEN
        IF \A k \in 1..2 : LabelIsDefined(labels, pts, definition[k]) THEN
            LET d == Sub(LabelPos(labels, pts, definition[1]),
                         LabelPos(labels, pts, definition[2]))
            IN FormatFixed(RoundedRoot1000(Dot(d, d), 1), 3)
        ELSE NA
    ELSE
        IF \A k \in 1..3 : LabelIsDefined(labels, pts, definition[k]) THEN
            LET p0 == LabelPos(labels, pts, definition[1])
                p1 == LabelPos(labels, pts, definition[2])
                p2 == LabelPos(labels, pts, definition[3])
                line_vec == Sub(p2, p1)
                c == Cross(line_vec, Sub(p1, p0))
            IN IF Dot(line_vec, line_vec) > 0
               THEN FormatFixed(RoundedRoot1000(Dot(c, c), Dot(line_vec, line_vec)), 3)
               ELSE <<"n", "a", "n">>
        ELSE NA

\* the value calculate_distances stores for one definition (2 or 3 labels)
DistanceValue(labels, pts, definition) ==
    IF Len(definition) = 2 THEN
        IF \A k \in 1..2 : LabelIsDefined(labels, pts, definition[k]) THEN
            LET d == Sub(LabelPos(labels, pts, definition[1]),
                         LabelPos(labels, pts, definition[2]))
            IN FormatFixed(RoundedRoot1000(Dot(d, d), 1), 3)
        ELSE NA
    ELSE
        IF \A k \in 1..3 : LabelIsDefined(labels, pts, definition[k]) THEN
            LET p0 == LabelPos(labels, pts, definition[1])
                p1 == LabelPos(labels, pts, definition[2])
                p2 == LabelPos(labels, pts, definition[3])
                line_vec == Sub(p2, p1)
                c == Cross(line_vec, Sub(p1, p0))
            IN IF Dot(line_vec, line_vec) > 0
               THEN FormatFixed(RoundedRoot1000(Dot(c, c), Dot(line_vec, line_vec)), 3)
               ELSE INVALID
        ELSE NA

calculate_distances(labels, pts, defs) ==
    LET keys == {defs[i] : i \in {j \in DOMAIN defs : Len(defs[j]) \in {2, 3}}}
    IN [d \in keys |-> DistanceValue(labels, pts, d)]

\* the first arm taken from the landmark to the vertex (pV - p1): the cosine
\* changes sign and the angle becomes its supplement
AngleValue_reversed_arm(labels, pts, triplet) ==
    IF \A k \in 1..3 : LabelIsDefined(labels, pts, triplet[k]) THEN
        LET vec1 == Sub(LabelPos(labels, pts, triplet[1]), LabelPos(labels, pts, triplet[2]))
            vec2 == Sub(LabelPos(labels, pts, triplet[3]), LabelPos(labels, pts, triplet[2]))
            n1 == Dot(vec1, vec1)
            n2 == Dot(vec2, vec2)
            dp == Dot(vec1, vec2)
        IN IF n1 > 0 /\ n2 > 0 THEN
               LET g == GCD(dp * dp, n1 * n2)
                   sgn == IF dp > 0 THEN 1 ELSE IF dp < 0 THEN 0 - 1 ELSE 0
               IN FormatFixed(18000 - AcosDegrees100(sgn, (dp * dp) \div g,
                                                     (n1 * n2) \div g), 2)
                      \o <<DEGREE>>
           ELSE INVALID
    ELSE NA

\* the value calculate_angles stores for one triplet (at least 3 labels)
AngleValue(labels, pts, triplet) ==
    IF \A k \in 1..3 : LabelIsDefined(labels, pts, triplet[k]) THEN
        LET vec1 == Sub(LabelPos(labels, pts, triplet[1]), LabelPos(labels, pts, triplet[2]))
            vec2 == Sub(LabelPos(labels, pts, triplet[3]), LabelPos(labels, pts, triplet[2]))
            n1 == Dot(vec1, vec1)
            n2 == Dot(vec2, vec2)
            dp == Dot(vec1, vec2)
        IN IF n1 > 0 /\ n2 > 0 THEN
               LET g == GCD(dp * dp, n1 * n2)
                   sgn == IF dp > 0 THEN 1 ELSE IF dp < 0 THEN 0 - 1 ELSE 0
               IN FormatFixed(AcosDegrees100(sgn, (dp * dp) \div g, (n1 * n2) \div g), 2)
                      \o <<DEGREE>>
           ELSE INVALID
    ELSE NA

\* index of the first triplet on which triplet[2] raises IndexError, 0 if none
FirstShortTriplet(defs) ==
    LET short == {i \in DOMAIN defs : Len(defs[i]) < 3} IN
    IF short = {} THEN 0 ELSE CHOOSE i \in short : \A j \in short : i <= j

\* calculate_angles: self.angles after the loop, or after the loop raised
calculate_angles(labels, pts, defs) ==
    LET stop == FirstShortTriplet(defs)
        done == IF stop = 0 THEN DOMAIN defs ELSE 1..(stop - 1)
    IN [t \in {defs[i] : i \in done} |-> AngleValue(labels, pts, t)]

calculate_angles_raises(defs) == FirstShortTriplet(defs) # 0

(***************************************************************************)
(* String literals of load_points and save_points.                         *)
(***************************************************************************)
S_POINTS_HEADER ==
    <<"[","P","O","I","N","T","S","]">>
S_DISTANCES_HEADER ==
    <<"[","D","I","S","T","A","N","C","E","S","]">>
S_ANGLES_HEADER ==
    <<"[","A","N","G","L","E","S","]">>
S_label_tab ==
    <<"l","a","b","e","l",TAB>>
S_type_tab ==
    <<"t","y","p","e",TAB>>
S_point_space ==
    <<"p","o","i","n","t"," ">>
S_point ==
    <<"p","o","i","n","t">>
S_defined ==
    <<"d","e","f","i","n","e","d">>
S_skipped ==
    <<"s","k","i","p","p","e","d">>
S_to_be_defined ==
    <<"t","o","_","b","e","_","d","e","f","i","n","e","d">>
S_Point_Point ==
    <<"P","o","i","n","t","-","P","o","i","n","t">>
S_Point_Line ==
    <<"P","o","i","n","t","-","L","i","n","e">>
S_Angle ==
    <<"A","n","g","l","e">>
S_mm ==
    <<"m","m">>
S_degrees ==
    <<"d","e","g","r","e","e","s">>
S_POINTS_COLUMNS ==
    <<"L","a","b","e","l",TAB,"S","t","a","t","u","s",TAB,"X",TAB,"Y",TAB,"Z">>
S_DISTANCES_COLUMNS ==
    <<"T","y","p","e",TAB,"P","o","i","n","t"," ","1",TAB,"P","o","i","n","t"," ","2",
      TAB,"P","o","i","n","t"," ","3",TAB,"V","a","l","u","e",TAB,"U","n","i","t">>
S_ANGLES_COLUMNS ==
    <<"T","y","p","e",TAB,"P","o","i","n","t"," ","1",TAB,"V","e","r","t","e","x",TAB,
      "P","o","i","n","t"," ","2",TAB,"V","a","l","u","e",TAB,"U","n","i","t">>
S_COMMENT_1 ==
    <<"#"," ","C","l","e","f","t","M","e","t","e","r"," ","D","a","t","a">>
S_COMMENT_2 ==
    <<"#"," ","S","T","L"," ","F","i","l","e",":"," ","m","o","d","e","l",".","s","t",
      "l">>
S_COMMENT_3 ==
    <<"#"," ","T","o"," ","i","m","p","o","r","t"," ","i","n","t","o"," ","E","x","c",
      "e","l",":"," ","o","p","e","n"," ","t","h","i","s"," ","f","i","l","e",","," ",
      "p","r","e","s","s"," ","C","t","r","l","+","A"," ","(","s","e","l","e","c","t",
      " ","a","l","l",")",","," ","C","t","r","l","+","C"," ","(","c","o","p","y",")",
      ","," ","a","n","d"," ","p","a","s","t","e"," ","i","n","t","o"," ","a"," ","b",
      "l","a","n","k"," ","E","x","c","e","l"," ","s","h","e","e","t",".">>

(***************************************************************************)
(* save_points: the lines written to the file.                             *)
(***************************************************************************)
RECURSIVE JoinTab(_)
JoinTab(fields) ==
    IF Len(fields) = 1 THEN fields[1]
    ELSE fields[1] \o <<TAB>> \o JoinTab(Tail(fields))

\* a Skipped landmark written under the status to_be_defined
PointRow_skipped_as_undefined(label, pos_data) ==
    IF pos_data.st \in {"to_be_defined", "skipped"}
    THEN JoinTab(<<label, S_to_be_defined, <<>>, <<>>, <<>> >>)
    ELSE JoinTab(<<label, S_defined, FormatCoord(pos_data.pos[1]),
                   FormatCoord(pos_data.pos[2]), FormatCoord(pos_data.pos[3])>>)

PointRow(label, pos_data) ==
    IF pos_data.st = "to_be_defined"
    THEN JoinTab(<<label, S_to_be_defined, <<>>, <<>>, <<>> >>)
    ELSE IF pos_data.st = "skipped"
    THEN JoinTab(<<label, S_skipped, <<>>, <<>>, <<>> >>)
    ELSE JoinTab(<<label, S_defined, FormatCoord(pos_data.pos[1]),
                   FormatCoord(pos_data.pos[2]), FormatCoord(pos_data.pos[3])>>)

\* dict.get(key, "n/a")
GetResult(results, key) == IF key \in DOMAIN results THEN results[key] ELSE NA

DistanceRow(definition, val) ==
    IF Len(definition) = 2
    THEN JoinTab(<<S_Point_Point, definition[1], definition[2], <<>>, val, S_mm>>)
    ELSE JoinTab(<<S_Point_Line, definition[1], definition[2], definition[3], val, S_mm>>)

\* an ANGLES row without the leading type field
AngleRow_no_type(triplet, val_str) ==
    JoinTab(<<triplet[1], triplet[2], triplet[3], remove(val_str, DEGREE), S_degrees>>)

AngleRow(triplet, val_str) ==
    JoinTab(<<S_Angle, triplet[1], triplet[2], triplet[3], remove(val_str, DEGREE),
              S_degrees>>)

\* index of the first triplet on which "p1, v, p2 = triplet" raises, 0 if none
FirstUnpackFailure(adefs) ==
    LET bad == {i \in DOMAIN adefs : Len(adefs[i]) # 3} IN
    IF bad = {} THEN 0 ELSE CHOOSE i \in bad : \A j \in bad : i <= j

save_raises(adefs) == FirstUnpackFailure(adefs) # 0

\* the file content save_points leaves behind (all of it, or what was written
\* before the write loop raised), from the state after its recomputation
SaveLines(labels, pts, ddefs, dres, adefs, ares) ==
    LET stop == FirstUnpackFailure(adefs)
        written == IF stop = 0 THEN Len(adefs) ELSE stop - 1
        dd == SelectSeq(ddefs, LAMBDA d : Len(d) \in {2, 3})
    IN <<S_COMMENT_1, S_COMMENT_2, S_COMMENT_3, <<>>, S_POINTS_HEADER, S_POINTS_COLUMNS>>
       \o [i \in 1..Len(pts) |-> PointRow(labels[i], pts[i])]
       \o << <<>>, S_DISTANCES_HEADER, S_DISTANCES_COLUMNS >>
       \o [i \in 1..Len(dd) |-> DistanceRow(dd[i], GetResult(dres, dd[i]))]
       \o << <<>>, S_ANGLES_HEADER, S_ANGLES_COLUMNS >>
       \o [i \in 1..written |-> AngleRow(adefs[i], GetResult(ares, adefs[i]))]

(***************************************************************************)
(* load_points: the line loop.  The parse state holds the four temp lists  *)
(* and current_section; raised is set when a statement of the loop raises. *)
(***************************************************************************)
ParseStart ==
    [temp_all_labels |-> <<>>, temp_points_config |-> <<>>, temp_dist_defs |-> <<>>,
     temp_angle_defs |-> <<>>, current_section |-> "None", raised |-> FALSE]

AddPoint(ps, label, status) ==
    [ps EXCEPT !.temp_all_labels = Append(@, label),
               !.temp_points_config = Append(@, status)]

\* a canonical row reader that drops a POINTS row it cannot read as a defined
\* or skipped landmark
ParseTabRow_drops_unreadable(ps, line) ==
    LET parts == split(line, TAB)
        lowered == lower(line)
    IN
    IF startswith(lowered, S_label_tab) \/ startswith(lowered, S_type_tab) THEN ps
    ELSE IF ps.current_section = "POINTS" THEN
        IF Len(parts) >= 2 THEN
            LET label == parts[1]
                status == lower(parts[2])
            IN IF status = S_defined /\ Len(parts) >= 5
                  /\ IsFloat(parts[3]) /\ IsFloat(parts[4]) /\ IsFloat(parts[5])
               THEN AddPoint(ps, label, Defined(<<FloatValue(parts[3]),
                                 FloatValue(parts[4]), FloatValue(parts[5])>>))
               ELSE IF status = S_skipped THEN AddPoint(ps, label, SKIPPED)
               ELSE ps
        ELSE ps
    ELSE IF ps.current_section = "DISTANCES" THEN
        IF Len(parts) >= 3 THEN
            IF Len(parts) > 3 /\ strip(parts[4]) # <<>>
            THEN [ps EXCEPT !.temp_dist_defs = Append(@, <<parts[2], parts[3], parts[4]>>)]
            ELSE [ps EXCEPT !.temp_dist_defs = Append(@, <<parts[2], parts[3]>>)]
        ELSE ps
    ELSE IF ps.current_section = "ANGLES" THEN
        IF Len(parts) >= 4
        THEN [ps EXCEPT !.temp_angle_defs = Append(@, <<parts[2], parts[3], parts[4]>>)]
        ELSE ps
    ELSE ps

\* canonical (tab-separated) row
ParseTabRow(ps, line) ==
    LET parts == split(line, TAB)
        lowered == lower(line)
    IN
    IF startswith(lowered, S_label_tab) \/ startswith(lowered, S_type_tab) THEN ps
    ELSE IF ps.current_section = "POINTS" THEN
        IF Len(parts) >= 2 THEN
            LET label == parts[1]
                status == lower(parts[2])
            IN IF status = S_defined /\ Len(parts) >= 5 THEN
                   IF IsFloat(parts[3]) /\ IsFloat(parts[4]) /\ IsFloat(parts[5])
                   THEN AddPoint(ps, label, Defined(<<FloatValue(parts[3]),
                                     FloatValue(parts[4]), FloatValue(parts[5])>>))
                   ELSE AddPoint(ps, label, TO_BE_DEFINED)
               ELSE IF status = S_skipped THEN AddPoint(ps, label, SKIPPED)
               ELSE AddPoint(ps, label, TO_BE_DEFINED)
        ELSE ps
    ELSE IF ps.current_section = "DISTANCES" THEN
        IF Len(parts) >= 3 THEN
            IF Len(parts) > 3 /\ strip(parts[4]) # <<>>
            THEN [ps EXCEPT !.temp_dist_defs = Append(@, <<parts[2], parts[3], parts[4]>>)]
            ELSE [ps EXCEPT !.temp_dist_defs = Append(@, <<parts[2], parts[3]>>)]
        ELSE ps
    ELSE IF ps.current_section = "ANGLES" THEN
        IF Len(parts) >= 4
        THEN [ps EXCEPT !.temp_angle_defs = Append(@, <<parts[2], parts[3], parts[4]>>)]
        ELSE ps
    ELSE ps

\* a legacy point reader that swallows the float() error and keeps the label
ParseLegacyPoint_keeps_label(ps, line, sectioned) ==
    LET parts == split1(line, ":")
        label_str == strip(SubSeq(parts[1], 6, Len(parts[1])))
        value_str == lower(strip(parts[2]))
        coords_str_list == splitws(value_str)
    IN IF value_str = S_skipped THEN AddPoint(ps, label_str, SKIPPED)
       ELSE IF sectioned /\ value_str = S_to_be_defined
       THEN AddPoint(ps, label_str, TO_BE_DEFINED)
       ELSE IF Len(coords_str_list) >= 3 THEN
           IF \A k \in 1..3 : IsFloat(coords_str_list[k])
           THEN AddPoint(ps, label_str, Defined(<<FloatValue(coords_str_list[1]),
                    FloatValue(coords_str_list[2]), FloatValue(coords_str_list[3])>>))
           ELSE [ps EXCEPT !.temp_all_labels = Append(@, label_str)]
       ELSE AddPoint(ps, label_str, TO_BE_DEFINED)

\* "Point <label>: <value>" in either legacy grammar; sectioned also knows the
\* value "to_be_defined".  float() of a non-numeric field raises after the label
\* was appended.
ParseLegacyPoint(ps, line, sectioned) ==
    LET parts == split1(line, ":")
        label_str == strip(SubSeq(parts[1], 6, Len(parts[1])))
        value_str == lower(strip(parts[2]))
        coords_str_list == splitws(value_str)
    IN IF value_str = S_skipped THEN AddPoint(ps, label_str, SKIPPED)
       ELSE IF sectioned /\ value_str = S_to_be_defined
       THEN AddPoint(ps, label_str, TO_BE_DEFINED)
       ELSE IF Len(coords_str_list) >= 3 THEN
           IF \A k \in 1..3 : IsFloat(coords_str_list[k])
           THEN AddPoint(ps, label_str, Defined(<<FloatValue(coords_str_list[1]),
                    FloatValue(coords_str_list[2]), FloatValue(coords_str_list[3])>>))
           ELSE [ps EXCEPT !.temp_all_labels = Append(@, label_str), !.raised = TRUE]
       ELSE AddPoint(ps, label_str, TO_BE_DEFINED)

\* a legacy [DISTANCES] row always read as the pair (p0, rest)
ParseLegacyDistance_always_pair(ps, line) ==
    LET def_part == strip(split1(line, ":")[1]) IN
    IF Contains(def_part, "-") THEN
        LET parts == split1(def_part, "-")
        IN [ps EXCEPT !.temp_dist_defs = Append(@, <<strip(parts[1]), strip(parts[2])>>)]
    ELSE ps

\* legacy "<p0>-<rest>: <value>" row of [DISTANCES]
ParseLegacyDistance(ps, line) ==
    LET def_part == strip(split1(line, ":")[1]) IN
    IF Contains(def_part, "-") THEN
        LET parts == split1(def_part, "-")
            p0 == strip(parts[1])
            line_str == strip(parts[2])
            line_str_no_apostrophe == remove(line_str, "'")
        IN IF /\ Len(line_str) >= 2
              /\ Len(line_str_no_apostrophe) >= 2
              /\ line_str[1] = line_str_no_apostrophe[2]
           THEN [ps EXCEPT !.temp_dist_defs =
                    Append(@, <<p0, <<line_str[1]>>, SubSeq(line_str, 2, Len(line_str))>>)]
           ELSE [ps EXCEPT !.temp_dist_defs = Append(@, <<p0, line_str>>)]
    ELSE ps

\* legacy "<a>-<v>-<b>: <value>" row of [ANGLES]
ParseLegacyAngle(ps, line) ==
    LET def_part == split1(line, ":")[1] IN
    [ps EXCEPT !.temp_angle_defs = Append(@, split(strip(def_part), "-"))]

\* colon rows read only under a section header
ParseColonRow_sectioned_only(ps, line) ==
    IF ps.current_section = "POINTS" THEN
        IF startswith(lower(split1(line, ":")[1]), S_point)
        THEN ParseLegacyPoint(ps, line, TRUE)
        ELSE ps
    ELSE IF ps.current_section = "DISTANCES" THEN ParseLegacyDistance(ps, line)
    ELSE IF ps.current_section = "ANGLES" THEN ParseLegacyAngle(ps, line)
    ELSE ps

ParseColonRow(ps, line) ==
    IF ps.current_section = "None" /\ startswith(lower(line), S_point_space)
    THEN ParseLegacyPoint(ps, line, FALSE)
    ELSE IF ps.current_section = "POINTS" THEN
        IF startswith(lower(split1(line, ":")[1]), S_point)
        THEN ParseLegacyPoint(ps, line, TRUE)
        ELSE ps
    ELSE IF ps.current_section = "DISTANCES" THEN ParseLegacyDistance(ps, line)
    ELSE IF ps.current_section = "ANGLES" THEN ParseLegacyAngle(ps, line)
    ELSE ps

\* the line loop with the colon test ahead of the tab test
ParseLine_colon_first(ps, raw) ==
    LET line == strip(raw)
        uppered == upper(line)
    IN
    IF line = <<>> \/ Head(line) = "#" THEN ps
    ELSE IF uppered = S_POINTS_HEADER THEN [ps EXCEPT !.current_section = "POINTS"]
    ELSE IF uppered = S_DISTANCES_HEADER THEN [ps EXCEPT !.current_section = "DISTANCES"]
    ELSE IF uppered = S_ANGLES_HEADER THEN [ps EXCEPT !.current_section = "ANGLES"]
    ELSE IF Contains(line, ":") THEN ParseColonRow(ps, line)
    ELSE IF Contains(line, TAB) THEN ParseTabRow(ps, line)
    ELSE ps

\* one iteration of "for line in lines"
ParseLine(ps, raw) ==
    LET line == strip(raw)
        uppered == upper(line)
    IN
    IF line = <<>> \/ Head(line) = "#" THEN ps
    ELSE IF uppered = S_POINTS_HEADER THEN [ps EXCEPT !.current_section = "POINTS"]
    ELSE IF uppered = S_DISTANCES_HEADER THEN [ps EXCEPT !.current_section = "DISTANCES"]
    ELSE IF uppered = S_ANGLES_HEADER THEN [ps EXCEPT !.current_section = "ANGLES"]
    ELSE IF Contains(line, TAB) THEN ParseTabRow(ps, line)
    ELSE IF Contains(line, ":") THEN ParseColonRow(ps, line)
    ELSE ps

RECURSIVE ParseLines(_, _)
ParseLines(ps, lines) ==
    IF lines = <<>> \/ ps.raised THEN ps
    ELSE ParseLines(ParseLine(ps, Head(lines)), Tail(lines))

(***************************************************************************)
(* Inputs: the positions the picker returns and the files the operator has *)
(* on disk.                                                                *)
(***************************************************************************)
Positions == {<<0, 0, 0>>, <<3, 0, 0>>}

TextFile(lines) == [exists |-> TRUE, encoding |-> "utf-8", lines |-> lines]
NoFile == [exists |-> FALSE, encoding |-> "utf-8", lines |-> <<>>]

\* a canonical file with a POINTS section only
CanonicalPointsOnlyLines ==
    << <<"[","P","O","I","N","T","S","]">>,
       <<"L","a","b","e","l",TAB,"S","t","a","t","u","s",TAB,"X",TAB,"Y",TAB,"Z">>,
       <<"I",TAB,"d","e","f","i","n","e","d",TAB,"1",".","0","0","0","0","0","0",TAB,
         "2",".","0","0","0","0","0","0",TAB,"3",".","0","0","0","0","0","0">> >>

\* a legacy file without section headers
LegacyUnsectionedLines ==
    << <<"P","o","i","n","t"," ","I",":"," ","1"," ","2"," ","3">>,
       <<"P","o","i","n","t"," ","P",":"," ","s","k","i","p","p","e","d">> >>

\* a legacy file whose second row has non-numeric coordinates
LegacyBadCoordsLines ==
    << <<"P","o","i","n","t"," ","I",":"," ","0"," ","0"," ","0">>,
       <<"P","o","i","n","t"," ","P",":"," ","a"," ","b"," ","c">>,
       <<"P","o","i","n","t"," ","L",":"," ","3"," ","0"," ","0">> >>

\* a canonical file whose POINTS rows repeat a label
RepeatedLabelLines ==
    << <<"[","P","O","I","N","T","S","]">>,
       <<"I",TAB,"d","e","f","i","n","e","d",TAB,"0",".","0","0","0","0","0","0",TAB,
         "0",".","0","0","0","0","0","0",TAB,"0",".","0","0","0","0","0","0">>,
       <<"I",TAB,"s","k","i","p","p","e","d",TAB,TAB,TAB>>,
       <<"P",TAB,"t","o","_","b","e","_","d","e","f","i","n","e","d",TAB,TAB,TAB>> >>

\* a canonical file listing a distance and an angle in both orientations
MirroredLines ==
    << <<"[","P","O","I","N","T","S","]">>,
       <<"I",TAB,"d","e","f","i","n","e","d",TAB,"0",".","0","0","0","0","0","0",TAB,
         "0",".","0","0","0","0","0","0",TAB,"0",".","0","0","0","0","0","0">>,
       <<"P",TAB,"d","e","f","i","n","e","d",TAB,"3",".","0","0","0","0","0","0",TAB,
         "0",".","0","0","0","0","0","0",TAB,"0",".","0","0","0","0","0","0">>,
       <<"L",TAB,"d","e","f","i","n","e","d",TAB,"0",".","0","0","0","0","0","0",TAB,
         "1",".","0","0","0","0","0","0",TAB,"0",".","0","0","0","0","0","0">>,
       <<"[","D","I","S","T","A","N","C","E","S","]">>,
       <<"T","y","p","e",TAB,"P","o","i","n","t"," ","1",TAB,"P","o","i","n","t"," ",
         "2",TAB,"P","o","i","n","t"," ","3",TAB,"V","a","l","u","e",TAB,"U","n","i","t">>,
       <<"P","o","i","n","t","-","P","o","i","n","t",TAB,"I",TAB,"P",TAB,TAB,"3",".",
         "0","0","0",TAB,"m","m">>,
       <<"P","o","i","n","t","-","P","o","i","n","t",TAB,"P",TAB,"I",TAB,TAB,"3",".",
         "0","0","0",TAB,"m","m">>,
       <<"[","A","N","G","L","E","S","]">>,
       <<"T","y","p","e",TAB,"P","o","i","n","t"," ","1",TAB,"V","e","r","t","e","x",
         TAB,"P","o","i","n","t"," ","2",TAB,"V","a","l","u","e",TAB,"U","n","i","t">>,
       <<"A","n","g","l","e",TAB,"P",TAB,"I",TAB,"L",TAB,"9","0",".","0","0",TAB,"d",
         "e","g","r","e","e","s">>,
       <<"A","n","g","l","e",TAB,"L",TAB,"I",TAB,"P",TAB,"9","0",".","0","0",TAB,"d",
         "e","g","r","e","e","s">> >>

\* a canonical file with every landmark marked and one definition per section
AllMarkedLines ==
    << <<"#"," ","C","l","e","f","t","M","e","t","e","r"," ","D","a","t","a">>,
       <<>>,
       <<"[","p","o","i","n","t","s","]">>,
       <<"L","a","b","e","l",TAB,"S","t","a","t","u","s",TAB,"X",TAB,"Y",TAB,"Z">>,
       <<"I",TAB,"d","e","f","i","n","e","d",TAB,"0",".","0","0","0","0","0","0",TAB,
         "0",".","0","0","0","0","0","0",TAB,"0",".","0","0","0","0","0","0">>,
       <<"P",TAB,"s","k","i","p","p","e","d",TAB,TAB,TAB>>,
       <<"L",TAB,"d","e","f","i","n","e","d",TAB,"0",".","0","0","0","0","0","0",TAB,
         "1",".","0","0","0","0","0","0",TAB,"0",".","0","0","0","0","0","0">>,
       <<"L","'",TAB,"d","e","f","i","n","e","d",TAB,"0",".","0","0","0","0","0","0",
         TAB,"-","1",".","0","0","0","0","0","0",TAB,"0",".","0","0","0","0","0","0">>,
       <<>>,
       <<"[","D","I","S","T","A","N","C","E","S","]">>,
       <<"T","y","p","e",TAB,"P","o","i","n","t"," ","1",TAB,"P","o","i","n","t"," ",
         "2",TAB,"P","o","i","n","t"," ","3",TAB,"V","a","l","u","e",TAB,"U","n","i","t">>,
       <<"P","o","i","n","t","-","L","i","n","e",TAB,"I",TAB,"L",TAB,"L","'",TAB,"0",
         ".","0","0","0",TAB,"m","m">>,
       <<>>,
       <<"[","A","N","G","L","E","S","]">>,
       <<"T","y","p","e",TAB,"P","o","i","n","t"," ","1",TAB,"V","e","r","t","e","x",
         TAB,"P","o","i","n","t"," ","2",TAB,"V","a","l","u","e",TAB,"U","n","i","t">>,
       <<"A","n","g","l","e",TAB,"I",TAB,"L",TAB,"L","'",TAB,"0",".","0","0",TAB,"d",
         "e","g","r","e","e","s">> >>

\* a legacy colon-separated file with sections
LegacySectionedLines ==
    << <<"[","P","O","I","N","T","S","]">>,
       <<"P","o","i","n","t"," ","I",":"," ","0"," ","0"," ","0">>,
       <<"P","o","i","n","t"," ","C",":"," ","t","o","_","b","e","_","d","e","f","i",
         "n","e","d">>,
       <<"P","o","i","n","t"," ","C","'",":"," ","s","k","i","p","p","e","d">>,
       <<"[","D","I","S","T","A","N","C","E","S","]">>,
       <<"I","-","C","C","'",":"," ","n","/","a">>,
       <<"I","-","C","'",":"," ","n","/","a">>,
       <<"[","A","N","G","L","E","S","]">>,
       <<"I","-","C","-","C","'",":"," ","n","/","a">> >>

\* a legacy file whose [ANGLES] row names two labels only
LegacyShortAngleLines ==
    << <<"[","P","O","I","N","T","S","]">>,
       <<"P","o","i","n","t"," ","I",":"," ","0"," ","0"," ","0">>,
       <<"[","A","N","G","L","E","S","]">>,
       <<"I","-","C",":"," ","n","/","a">> >>

\* a legacy file with an [ANGLES] row of two labels before one of three, and no
\* POINTS rows
LegacyTwoAnglesLines ==
    << <<"[","A","N","G","L","E","S","]">>,
       <<"I","-","C",":"," ","n","/","a">>,
       <<"I","-","P","-","L",":"," ","n","/","a">> >>

\* a canonical file with a DISTANCES section and no POINTS rows
DistancesOnlyLines ==
    << <<"#"," ","C","l","e","f","t","M","e","t","e","r"," ","D","a","t","a">>,
       <<"[","D","I","S","T","A","N","C","E","S","]">>,
       <<"T","y","p","e",TAB,"P","o","i","n","t"," ","1",TAB,"P","o","i","n","t"," ",
         "2",TAB,"P","o","i","n","t"," ","3",TAB,"V","a","l","u","e",TAB,"U","n","i","t">>,
       <<"P","o","i","n","t","-","P","o","i","n","t",TAB,"I",TAB,"P",TAB,TAB,"n","/",
         "a",TAB,"m","m">> >>

\* the files the operator may have next to an STL model; the last one holds
\* bytes that are valid in neither utf-8 nor cp1250
Files ==
    {TextFile(CanonicalPointsOnlyLines), TextFile(LegacyUnsectionedLines),
     TextFile(LegacyBadCoordsLines), TextFile(RepeatedLabelLines),
     TextFile(MirroredLines), TextFile(AllMarkedLines), TextFile(LegacyShortAngleLines),
     TextFile(DistancesOnlyLines), TextFile(LegacyTwoAnglesLines),
     [TextFile(LegacySectionedLines) EXCEPT !.encoding = "cp1250"],
     [TextFile(LegacyUnsectionedLines) EXCEPT !.encoding = "undecodable"]}

(***************************************************************************)
(* Selection state: unhighlight_all, highlight_distance, highlight_angle,  *)
(* reapply_measurement_highlight.  A selection is the record of the four   *)
(* index fields.                                                           *)
(***************************************************************************)
Selection == [p |-> selected_point_index, b |-> currently_highlighted_point_index,
              d |-> selected_distance_index, a |-> selected_angle_index]
NoSelection == [p |-> None, b |-> None, d |-> None, a |-> None]

SetSelection(sel) ==
    /\ selected_point_index' = sel.p
    /\ currently_highlighted_point_index' = sel.b
    /\ selected_distance_index' = sel.d
    /\ selected_angle_index' = sel.a

highlight_distance(sel, index, ndefs) ==
    IF InRange(index, ndefs) THEN [NoSelection EXCEPT !.d = index]
    ELSE [sel EXCEPT !.d = None]

highlight_angle(sel, index, ndefs) ==
    IF InRange(index, ndefs) THEN [NoSelection EXCEPT !.a = index]
    ELSE [sel EXCEPT !.a = None]

reapply_measurement_highlight(sel, ndist, nangle) ==
    LET cleared == [sel EXCEPT !.d = None, !.a = None] IN
    IF sel.d # None THEN
        IF InRange(sel.d, ndist) THEN highlight_distance(cleared, sel.d, ndist) ELSE cleared
    ELSE IF sel.a # None THEN
        IF InRange(sel.a, nangle) THEN highlight_angle(cleared, sel.a, nangle) ELSE cleared
    ELSE sel

(***************************************************************************)
(* Init: the state STLViewer.__init__ leaves; no model, any companion file.*)
(***************************************************************************)
AllUndefined(labels) == [i \in DOMAIN labels |-> TO_BE_DEFINED]
EmptyDict == [k \in {} |-> NA]

Init ==
    /\ all_labels_in_order = FIXED_LABELS_CLEFT
    /\ points = AllUndefined(FIXED_LABELS_CLEFT)
    /\ point_count = 0
    /\ distance_definitions = DEFAULT_CLEFT_DIST_DEFS
    /\ distances = EmptyDict
    /\ angle_definitions = DEFAULT_CLEFT_ANGLE_DEFS
    /\ angles = EmptyDict
    /\ selected_point_index = None
    /\ currently_highlighted_point_index = None
    /\ selected_distance_index = None
    /\ selected_angle_index = None
    /\ unsaved_changes = FALSE
    /\ actor = FALSE
    /\ disk = NoFile
    /\ last = [op |-> "__init__", outcome |-> "ok", args |-> <<>>]
    /\ nops = 0

\* every handler call is one step; the record keeps the arguments a later
\* statement about the call needs
Call(op, outcome, args) ==
    /\ nops < MaxOps
    /\ nops' = nops + 1
    /\ last' = [op |-> op, outcome |-> outcome, args |-> args]

\* a handler call whose arguments the record leaves out
Handler(op, outcome) == Call(op, outcome, <<>>)

Registry == <<all_labels_in_order, points, point_count>>
Definitions == <<distance_definitions, angle_definitions>>
Results == <<distances, angles>>
SelectionVars == <<selected_point_index, currently_highlighted_point_index,
                   selected_distance_index, selected_angle_index>>
Data == <<Registry, Definitions, Results, SelectionVars, unsaved_changes>>

(***************************************************************************)
(* _reset_state_without_confirmation                                       *)
(***************************************************************************)
\* a reset of the landmarks that leaves the definition lists as they are
_reset_state_keeps_definitions ==
    /\ all_labels_in_order' = FIXED_LABELS_CLEFT
    /\ points' = AllUndefined(FIXED_LABELS_CLEFT)
    /\ point_count' = 0
    /\ UNCHANGED <<distance_definitions, angle_definitions>>
    /\ distances' = EmptyDict
    /\ angles' = EmptyDict
    /\ SetSelection(NoSelection)
    /\ unsaved_changes' = FALSE

_reset_state_without_confirmation ==
    /\ all_labels_in_order' = FIXED_LABELS_CLEFT
    /\ points' = AllUndefined(FIXED_LABELS_CLEFT)
    /\ point_count' = 0
    /\ distance_definitions' = DEFAULT_CLEFT_DIST_DEFS
    /\ distances' = EmptyDict
    /\ angle_definitions' = DEFAULT_CLEFT_ANGLE_DEFS
    /\ angles' = EmptyDict
    /\ SetSelection(NoSelection)
    /\ unsaved_changes' = FALSE

\* clear_all_data: the "Clear All" button and its confirmation
clear_all_data(reply) ==
    /\ Handler("clear_all_data", reply)
    /\ IF reply = "Yes" THEN _reset_state_without_confirmation ELSE UNCHANGED Data
    /\ UNCHANGED <<actor, disk>>

(***************************************************************************)
(* The landmark handlers.  A handler that changes a landmark recomputes    *)
(* the cursor and all measurements; calculate_angles raises IndexError on  *)
(* a triplet of fewer than three labels, which ends the handler there.     *)
(***************************************************************************)
\* a landmark change that forgets the call of find_next_undefined
LandmarkChanged_stale_cursor(pts, sel) ==
    /\ points' = pts
    /\ point_count' = point_count
    /\ unsaved_changes' = TRUE
    /\ distances' = calculate_distances(all_labels_in_order, pts, distance_definitions)
    /\ angles' = calculate_angles(all_labels_in_order, pts, angle_definitions)
    /\ SetSelection(IF calculate_angles_raises(angle_definitions) THEN sel
                    ELSE reapply_measurement_highlight(sel, Len(distance_definitions),
                                                       Len(angle_definitions)))
    /\ UNCHANGED <<all_labels_in_order, Definitions, actor, disk>>

\* points replaced by pts, then find_next_undefined, then calculate_all_measurements,
\* then reapply_measurement_highlight from the selection sel
LandmarkChanged(pts, sel) ==
    /\ points' = pts
    /\ point_count' = find_next_undefined(pts)
    /\ unsaved_changes' = TRUE
    /\ distances' = calculate_distances(all_labels_in_order, pts, distance_definitions)
    /\ angles' = calculate_angles(all_labels_in_order, pts, angle_definitions)
    /\ SetSelection(IF calculate_angles_raises(angle_definitions) THEN sel
                    ELSE reapply_measurement_highlight(sel, Len(distance_definitions),
                                                       Len(angle_definitions)))
    /\ UNCHANGED <<all_labels_in_order, Definitions, actor, disk>>

Outcome(raises) == IF raises THEN "raised" ELSE "ok"

\* add_point, called by left_button_press_event when D is held and the pick hit
\* the model
add_point(world_pos) ==
    /\ actor
    /\ LET next_idx == find_next_undefined_index(points) IN
       IF next_idx = None THEN
           /\ Handler("add_point", "all_marked")
           /\ UNCHANGED <<Data, actor, disk>>
       ELSE
           /\ Handler("add_point", Outcome(calculate_angles_raises(angle_definitions)))
           /\ LandmarkChanged([points EXCEPT ![next_idx[1] + 1] = Defined(world_pos)],
                              Selection)

\* a redefine that gives up on a landmark without a coordinate
redefine_point_defined_only(world_pos) ==
    /\ actor
    /\ selected_point_index # None
    /\ IF ~InRange(selected_point_index, Len(points)) THEN
           /\ Handler("redefine_point", "bad_index")
           /\ UNCHANGED <<Data, actor, disk>>
       ELSE IF ~IsTuple(points[selected_point_index[1] + 1]) THEN
           /\ Handler("redefine_point", "ok")
           /\ UNCHANGED <<Data, actor, disk>>
       ELSE
           /\ Handler("redefine_point", Outcome(calculate_angles_raises(angle_definitions)))
           /\ LandmarkChanged(
                  [points EXCEPT ![selected_point_index[1] + 1] = Defined(world_pos)],
                  [Selection EXCEPT !.p = None])

\* redefine_point, called by left_button_press_event when E is held, a point is
\* selected and the pick hit the model
redefine_point(world_pos) ==
    /\ actor
    /\ selected_point_index # None
    /\ IF ~InRange(selected_point_index, Len(points)) THEN
           /\ Handler("redefine_point", "bad_index")
           /\ UNCHANGED <<Data, actor, disk>>
       ELSE
           /\ Handler("redefine_point", Outcome(calculate_angles_raises(angle_definitions)))
           /\ LandmarkChanged(
                  [points EXCEPT ![selected_point_index[1] + 1] = Defined(world_pos)],
                  [Selection EXCEPT !.p = None])

\* a defer that marks every landmark still to be defined as skipped
defer_point_skips_all ==
    IF find_next_undefined_index(points) = None THEN
        /\ Handler("defer_point", "all_marked")
        /\ UNCHANGED <<Data, actor, disk>>
    ELSE
        /\ Handler("defer_point", Outcome(calculate_angles_raises(angle_definitions)))
        /\ LandmarkChanged([i \in DOMAIN points |->
                               IF points[i] = TO_BE_DEFINED THEN SKIPPED ELSE points[i]],
                           Selection)

\* defer_point: key N outside the edit, define and delete modes
defer_point ==
    LET next_index_to_define == find_next_undefined_index(points) IN
    IF next_index_to_define = None THEN
        /\ Handler("defer_point", "all_marked")
        /\ UNCHANGED <<Data, actor, disk>>
    ELSE
        /\ Handler("defer_point", Outcome(calculate_angles_raises(angle_definitions)))
        /\ LandmarkChanged([points EXCEPT ![next_index_to_define[1] + 1] = SKIPPED],
                           Selection)

\* a skip that puts the selected landmark back to 'to_be_defined'
skip_selected_point_to_undefined ==
    IF selected_point_index = None THEN
        /\ Handler("skip_selected_point", "no_selection")
        /\ UNCHANGED <<Data, actor, disk>>
    ELSE IF ~InRange(selected_point_index, Len(points)) THEN
        /\ Handler("skip_selected_point", "bad_index")
        /\ SetSelection([Selection EXCEPT !.p = None])
        /\ UNCHANGED <<Registry, Definitions, Results, unsaved_changes, actor, disk>>
    ELSE
        /\ Handler("skip_selected_point", Outcome(calculate_angles_raises(angle_definitions)))
        /\ LandmarkChanged([points EXCEPT ![selected_point_index[1] + 1] = TO_BE_DEFINED],
                           [Selection EXCEPT !.p = None])

\* skip_selected_point: key N in edit mode with a point selected
skip_selected_point ==
    IF selected_point_index = None THEN
        /\ Handler("skip_selected_point", "no_selection")
        /\ UNCHANGED <<Data, actor, disk>>
    ELSE IF ~InRange(selected_point_index, Len(points)) THEN
        /\ Handler("skip_selected_point", "bad_index")
        /\ SetSelection([Selection EXCEPT !.p = None])
        /\ UNCHANGED <<Registry, Definitions, Results, unsaved_changes, actor, disk>>
    ELSE
        /\ Handler("skip_selected_point", Outcome(calculate_angles_raises(angle_definitions)))
        /\ LandmarkChanged([points EXCEPT ![selected_point_index[1] + 1] = SKIPPED],
                           [Selection EXCEPT !.p = None])

\* a delete that puts the landmark back to 'to_be_defined'
delete_point_to_undefined(index_to_delete, sel) ==
    LET pts == [points EXCEPT ![index_to_delete + 1] = TO_BE_DEFINED]
        sel1 == [sel EXCEPT !.p = IF @ = Some(index_to_delete) THEN None ELSE @,
                            !.b = IF @ = Some(index_to_delete) THEN None ELSE @]
        raises == calculate_angles_raises(angle_definitions)
    IN /\ points' = pts
       /\ unsaved_changes' = TRUE
       /\ distances' = calculate_distances(all_labels_in_order, pts, distance_definitions)
       /\ angles' = calculate_angles(all_labels_in_order, pts, angle_definitions)
       /\ point_count' = IF raises THEN point_count ELSE find_next_undefined(pts)
       /\ SetSelection(IF raises THEN sel1
                       ELSE reapply_measurement_highlight(sel1, Len(distance_definitions),
                                                          Len(angle_definitions)))
       /\ UNCHANGED <<all_labels_in_order, Definitions, actor, disk>>

\* delete_point(index_to_delete): calculate_all_measurements runs before
\* find_next_undefined here, so a raise leaves point_count as it was
delete_point(index_to_delete, sel) ==
    LET pts == [points EXCEPT ![index_to_delete + 1] = SKIPPED]
        sel1 == [sel EXCEPT !.p = IF @ = Some(index_to_delete) THEN None ELSE @,
                            !.b = IF @ = Some(index_to_delete) THEN None ELSE @]
        raises == calculate_angles_raises(angle_definitions)
    IN /\ points' = pts
       /\ unsaved_changes' = TRUE
       /\ distances' = calculate_distances(all_labels_in_order, pts, distance_definitions)
       /\ angles' = calculate_angles(all_labels_in_order, pts, angle_definitions)
       /\ point_count' = IF raises THEN point_count ELSE find_next_undefined(pts)
       /\ SetSelection(IF raises THEN sel1
                       ELSE reapply_measurement_highlight(sel1, Len(distance_definitions),
                                                          Len(angle_definitions)))
       /\ UNCHANGED <<all_labels_in_order, Definitions, actor, disk>>

\* on_point_selected: a click on row index of the points list; mode is the key
\* held ("edit" for E, "delete" for Del, "none")
on_point_selected(index, mode) ==
    /\ index \in 0..(Len(points) - 1)
    /\ LET sel == [Selection EXCEPT !.d = None, !.a = None]
           status == points[index + 1]
       IN IF mode = "edit" THEN
              /\ Handler("on_point_selected", "edit")
              /\ SetSelection(IF status.st # "to_be_defined"
                              THEN [NoSelection EXCEPT !.p = Some(index)]
                              ELSE [sel EXCEPT !.p = None])
              /\ UNCHANGED <<Registry, Definitions, Results, unsaved_changes, actor, disk>>
          ELSE IF mode = "delete" THEN
              IF IsTuple(status) THEN
                  /\ Call("delete_point", Outcome(calculate_angles_raises(angle_definitions)),
                          <<index>>)
                  /\ delete_point(index, sel)
              ELSE
                  /\ Handler("on_point_selected", "cannot_delete")
                  /\ SetSelection(sel)
                  /\ UNCHANGED <<Registry, Definitions, Results, unsaved_changes, actor, disk>>
          ELSE
              /\ Handler("on_point_selected", "highlight")
              /\ SetSelection(IF IsTuple(status) /\ sel.b # Some(index)
                              THEN [NoSelection EXCEPT !.b = Some(index)]
                              ELSE [sel EXCEPT !.b = None])
              /\ UNCHANGED <<Registry, Definitions, Results, unsaved_changes, actor, disk>>

(***************************************************************************)
(* The measurement-definition handlers.                                    *)
(***************************************************************************)
\* on_distance_selected -> toggle_distance_highlight: a click on a distances row
on_distance_selected(index) ==
    /\ index \in 0..(Len(distance_definitions) - 1)
    /\ Handler("on_distance_selected", "ok")
    /\ SetSelection(IF selected_distance_index = Some(index)
                    THEN [Selection EXCEPT !.d = None]
                    ELSE highlight_distance(Selection, Some(index),
                                            Len(distance_definitions)))
    /\ UNCHANGED <<Registry, Definitions, Results, unsaved_changes, actor, disk>>

\* on_angle_selected -> toggle_angle_highlight: a click on an angles row
on_angle_selected(index) ==
    /\ index \in 0..(Len(angle_definitions) - 1)
    /\ Handler("on_angle_selected", "ok")
    /\ SetSelection(IF selected_angle_index = Some(index)
                    THEN [Selection EXCEPT !.a = None]
                    ELSE highlight_angle(Selection, Some(index), Len(angle_definitions)))
    /\ UNCHANGED <<Registry, Definitions, Results, unsaved_changes, actor, disk>>

get_defined_point_labels(labels, pts) ==
    LET idx == SelectSeq([i \in 1..Len(pts) |-> i],
                         LAMBDA i : IsTuple(pts[i]) /\ i <= Len(labels))
    IN [k \in 1..Len(idx) |-> labels[idx[k]]]

Range(seq) == {seq[i] : i \in DOMAIN seq}

NONE_CHOICE == <<"N","O","N","E">>

DefinedLabels == get_defined_point_labels(all_labels_in_order, points)

\* what a SelectPointsDialog over the defined labels can return: nothing when it
\* is not shown or is cancelled, else one label per combo box
DialogChoices(min_points, with_none) ==
    LET shown == Range(DefinedLabels) IN
    {<<FALSE, NONE_CHOICE, NONE_CHOICE, NONE_CHOICE>>} \cup
    (IF Len(DefinedLabels) < min_points THEN {}
     ELSE {<<TRUE, a, b, c>> : a \in shown, b \in shown,
                               c \in shown \cup (IF with_none THEN {NONE_CHOICE} ELSE {})})

\* a point-point duplicate test without the reversed pair
IsDuplicatePointPoint_exact(defs, p1_label, p2_label) ==
    <<p1_label, p2_label>> \in Range(defs)

\* the duplicate tests of add_distance_definition
IsDuplicatePointPoint(defs, p1_label, p2_label) ==
    \E i \in DOMAIN defs :
        /\ Len(defs[i]) = 2
        /\ defs[i] = <<p1_label, p2_label>> \/ defs[i] = <<p2_label, p1_label>>

\* a point-line duplicate test without the reversed line
IsDuplicatePointLine_exact(defs, p1_label, p2_label, p3_label) ==
    <<p1_label, p2_label, p3_label>> \in Range(defs)

IsDuplicatePointLine(defs, p1_label, p2_label, p3_label) ==
    \/ <<p1_label, p2_label, p3_label>> \in Range(defs)
    \/ <<p1_label, p3_label, p2_label>> \in Range(defs)

\* add_distance_definition with the dialog accepted on (p1, p2, p3), p3 possibly
\* the "NONE" entry, or cancelled
add_distance_definition(accepted, p1_label, p2_label, p3_label) ==
    LET defined_labels == DefinedLabels
        Reject(why) == /\ Call("add_distance_definition", why,
                               <<p1_label, p2_label, p3_label>>)
                       /\ UNCHANGED <<Data, actor, disk>>
        Accept(new_def) ==
            /\ Call("add_distance_definition", "added", <<p1_label, p2_label, p3_label>>)
            /\ distance_definitions' = Append(distance_definitions, new_def)
            /\ distances' = calculate_distances(all_labels_in_order, points,
                                                Append(distance_definitions, new_def))
            /\ unsaved_changes' = TRUE
            /\ UNCHANGED <<Registry, angle_definitions, angles, SelectionVars, actor, disk>>
    IN IF Len(defined_labels) < 2 THEN
           /\ ~accepted /\ p1_label = NONE_CHOICE /\ p2_label = NONE_CHOICE
           /\ p3_label = NONE_CHOICE
           /\ Reject("not_enough_points")
       ELSE IF ~accepted THEN
           /\ p1_label = NONE_CHOICE /\ p2_label = NONE_CHOICE /\ p3_label = NONE_CHOICE
           /\ Reject("cancelled")
       ELSE
           /\ IF p3_label = NONE_CHOICE THEN
                  IF p1_label = p2_label THEN Reject("invalid")
                  ELSE IF IsDuplicatePointPoint(distance_definitions, p1_label, p2_label)
                  THEN Reject("duplicate")
                  ELSE Accept(<<p1_label, p2_label>>)
              ELSE
                  IF Cardinality({p1_label, p2_label, p3_label}) < 3 THEN Reject("invalid")
                  ELSE IF IsDuplicatePointLine(distance_definitions, p1_label, p2_label,
                                               p3_label)
                  THEN Reject("duplicate")
                  ELSE Accept(<<p1_label, p2_label, p3_label>>)

\* dict.pop(key, None)
Pop(dict, key) == [k \in (DOMAIN dict) \ {key} |-> dict[k]]

RemoveAt(seq, index) == SubSeq(seq, 1, index) \o SubSeq(seq, index + 2, Len(seq))

\* remove_selected_distance with the answer to the confirmation question
remove_selected_distance(reply) ==
    IF selected_distance_index = None THEN
        /\ reply = "No"
        /\ Handler("remove_selected_distance", "no_selection")
        /\ UNCHANGED <<Data, actor, disk>>
    ELSE IF ~InRange(selected_distance_index, Len(distance_definitions)) THEN
        /\ reply = "No"
        /\ Handler("remove_selected_distance", "bad_index")
        /\ UNCHANGED <<Data, actor, disk>>
    ELSE IF reply = "Yes" THEN
        LET idx_to_remove == selected_distance_index[1]
            pair_to_remove == distance_definitions[idx_to_remove + 1]
        IN /\ Handler("remove_selected_distance", "removed")
           /\ SetSelection([Selection EXCEPT !.d = None])
           /\ distance_definitions' = RemoveAt(distance_definitions, idx_to_remove)
           /\ distances' = Pop(Pop(distances, pair_to_remove),
                               <<pair_to_remove[2], pair_to_remove[1]>>)
           /\ unsaved_changes' = TRUE
           /\ UNCHANGED <<Registry, angle_definitions, angles, actor, disk>>
    ELSE
        /\ Handler("remove_selected_distance", "declined")
        /\ UNCHANGED <<Data, actor, disk>>

\* an angle duplicate test that ignores which label is the vertex
IsDuplicateAngle_any_vertex(defs, l1, v, l2) ==
    \E i \in DOMAIN defs : Range(defs[i]) = {l1, v, l2}

\* the duplicate test of add_angle_definition
IsDuplicateAngle(defs, l1, v, l2) ==
    \E i \in DOMAIN defs : defs[i] = <<l1, v, l2>> \/ defs[i] = <<l2, v, l1>>

\* add_angle_definition with the dialog accepted on (l1, v, l2), or cancelled
add_angle_definition(accepted, l1, v, l2) ==
    LET defined_labels == DefinedLabels
        new_triplet == <<l1, v, l2>>
        Reject(why) == /\ Call("add_angle_definition", why, <<l1, v, l2>>)
                       /\ UNCHANGED <<Data, actor, disk>>
    IN IF Len(defined_labels) < 3 THEN
           /\ ~accepted /\ l1 = NONE_CHOICE /\ v = NONE_CHOICE /\ l2 = NONE_CHOICE
           /\ Reject("not_enough_points")
       ELSE IF ~accepted THEN
           /\ l1 = NONE_CHOICE /\ v = NONE_CHOICE /\ l2 = NONE_CHOICE
           /\ Reject("cancelled")
       ELSE
           /\ IF l1 = v \/ l2 = v \/ l1 = l2 THEN Reject("invalid")
              ELSE IF IsDuplicateAngle(angle_definitions, l1, v, l2)
              THEN Reject("duplicate")
              ELSE
                  /\ Call("add_angle_definition",
                          IF calculate_angles_raises(angle_definitions)
                          THEN "added_raised" ELSE "added", <<l1, v, l2>>)
                  /\ angle_definitions' = Append(angle_definitions, new_triplet)
                  /\ angles' = calculate_angles(all_labels_in_order, points,
                                                Append(angle_definitions, new_triplet))
                  /\ unsaved_changes' = IF calculate_angles_raises(angle_definitions)
                                         THEN unsaved_changes ELSE TRUE
                  /\ UNCHANGED <<Registry, distance_definitions, distances,
                                 SelectionVars, actor, disk>>

\* remove_selected_angle with the answer to the confirmation question; building
\* the question text raises IndexError on a triplet of fewer than three labels,
\* and so does the refresh of the panel after the removal when such a triplet
\* stays in the list
remove_selected_angle(reply) ==
    IF selected_angle_index = None THEN
        /\ reply = "No"
        /\ Handler("remove_selected_angle", "no_selection")
        /\ UNCHANGED <<Data, actor, disk>>
    ELSE IF ~InRange(selected_angle_index, Len(angle_definitions)) THEN
        /\ reply = "No"
        /\ Handler("remove_selected_angle", "bad_index")
        /\ UNCHANGED <<Data, actor, disk>>
    ELSE IF Len(angle_definitions[selected_angle_index[1] + 1]) < 3 THEN
        /\ reply = "No"
        /\ Handler("remove_selected_angle", "raised")
        /\ UNCHANGED <<Data, actor, disk>>
    ELSE IF reply = "Yes" THEN
        LET idx_to_remove == selected_angle_index[1]
            triplet_to_remove == angle_definitions[idx_to_remove + 1]
            \* update_angles_panel raises IndexError on a remaining triplet of
            \* fewer than three labels, before unsaved_changes is set
            panel_raises == calculate_angles_raises(RemoveAt(angle_definitions,
                                                             idx_to_remove))
        IN /\ Handler("remove_selected_angle", IF panel_raises THEN "removed_raised"
                                               ELSE "removed")
           /\ SetSelection([Selection EXCEPT !.a = None])
           /\ angle_definitions' = RemoveAt(angle_definitions, idx_to_remove)
           /\ angles' = Pop(Pop(angles, triplet_to_remove),
                            <<triplet_to_remove[3], triplet_to_remove[2],
                              triplet_to_remove[1]>>)
           /\ unsaved_changes' = IF panel_raises THEN unsaved_changes ELSE TRUE
           /\ UNCHANGED <<Registry, distance_definitions, distances, actor, disk>>
    ELSE
        /\ Handler("remove_selected_angle", "declined")
        /\ UNCHANGED <<Data, actor, disk>>

(***************************************************************************)
(* load_points, open_points, load_stl, save_points.                        *)
(***************************************************************************)
\* decoding without the cp1250 retry
Decodes_utf8_only(file) == file.encoding = "utf-8"

\* decoding succeeds as utf-8 or, failing that, as cp1250
Decodes(file) == file.encoding \in {"utf-8", "cp1250"}

\* the "try" block after a successful parse: reset, then the three replacements,
\* then find_next_undefined; the "finally" block recomputes the measurements
\* the labels of the file followed by the fixed labels the file does not list
LoadedLabels_merged(ps) ==
    IF ps.temp_points_config # <<>>
    THEN ps.temp_all_labels
             \o SelectSeq(FIXED_LABELS_CLEFT,
                          LAMBDA l : \A i \in DOMAIN ps.temp_all_labels :
                                         ps.temp_all_labels[i] # l)
    ELSE FIXED_LABELS_CLEFT

LoadedLabels(ps) ==
    IF ps.temp_points_config # <<>> THEN ps.temp_all_labels ELSE FIXED_LABELS_CLEFT
\* the registry left empty when the file has no POINTS row
LoadedPoints_empty(ps) == ps.temp_points_config

LoadedPoints(ps) ==
    IF ps.temp_points_config # <<>> THEN ps.temp_points_config
    ELSE AllUndefined(FIXED_LABELS_CLEFT)
\* the list in force without the definitions that name a label the loaded
\* registry does not hold
LoadedDistanceDefinitions_known_labels(ps) ==
    SelectSeq(IF ps.temp_dist_defs # <<>> THEN ps.temp_dist_defs
              ELSE DEFAULT_CLEFT_DIST_DEFS,
              LAMBDA d : \A k \in DOMAIN d : d[k] \in Range(LoadedLabels(ps)))

\* the list of the file installed even when the file has no DISTANCES row
LoadedDistanceDefinitions_always(ps) == ps.temp_dist_defs

LoadedDistanceDefinitions(ps) ==
    IF ps.temp_dist_defs # <<>> THEN ps.temp_dist_defs ELSE DEFAULT_CLEFT_DIST_DEFS
LoadedAngleDefinitions(ps) ==
    IF ps.temp_angle_defs # <<>> THEN ps.temp_angle_defs ELSE DEFAULT_CLEFT_ANGLE_DEFS

ApplyLoaded(ps) ==
    LET labels == LoadedLabels(ps)
        pts == LoadedPoints(ps)
        ddefs == LoadedDistanceDefinitions(ps)
        adefs == LoadedAngleDefinitions(ps)
    IN /\ all_labels_in_order' = labels
       /\ points' = pts
       /\ distance_definitions' = ddefs
       /\ angle_definitions' = adefs
       /\ point_count' = find_next_undefined(pts)
       /\ unsaved_changes' = FALSE
       /\ distances' = calculate_distances(labels, pts, ddefs)
       /\ angles' = calculate_angles(labels, pts, adefs)
       /\ SetSelection(NoSelection)

\* the "except" block: reset; the "finally" block then recomputes the measurements
ResetAfterParseError ==
    /\ all_labels_in_order' = FIXED_LABELS_CLEFT
    /\ points' = AllUndefined(FIXED_LABELS_CLEFT)
    /\ point_count' = 0
    /\ distance_definitions' = DEFAULT_CLEFT_DIST_DEFS
    /\ angle_definitions' = DEFAULT_CLEFT_ANGLE_DEFS
    /\ distances' = calculate_distances(FIXED_LABELS_CLEFT, AllUndefined(FIXED_LABELS_CLEFT),
                                        DEFAULT_CLEFT_DIST_DEFS)
    /\ angles' = calculate_angles(FIXED_LABELS_CLEFT, AllUndefined(FIXED_LABELS_CLEFT),
                                  DEFAULT_CLEFT_ANGLE_DEFS)
    /\ SetSelection(NoSelection)
    /\ unsaved_changes' = FALSE

\* how load_points ends, given the parse state the line loop ends in
LoadOutcome(file, ps) ==
    IF ~file.exists THEN "missing"
    ELSE IF ~Decodes(file) THEN "unreadable"
    ELSE IF ps.raised THEN "parse_error"
    ELSE IF calculate_angles_raises(LoadedAngleDefinitions(ps)) THEN "loaded_raised"
    ELSE "loaded"

\* a load that leaves the state alone when the file does not exist
load_points_missing_is_noop(file, unreadable_resets) ==
    LET ps == ParseLines(ParseStart, file.lines)
        outcome == LoadOutcome(file, ps)
    IN /\ Handler("load_points", outcome)
       /\ IF outcome = "missing" THEN UNCHANGED Data
          ELSE IF outcome = "unreadable" THEN
              IF unreadable_resets THEN _reset_state_without_confirmation
              ELSE UNCHANGED Data
          ELSE IF outcome = "parse_error" THEN ResetAfterParseError
          ELSE ApplyLoaded(ps)

\* load_points(txt_filename) with a model loaded; file is what the path holds.
\* A missing file resets, an undecodable one returns, a parse error resets.
load_points(file, unreadable_resets) ==
    LET ps == ParseLines(ParseStart, file.lines)
        outcome == LoadOutcome(file, ps)
    IN /\ Handler("load_points", outcome)
       /\ IF outcome = "missing" THEN _reset_state_without_confirmation
          ELSE IF outcome = "unreadable" THEN
              IF unreadable_resets THEN _reset_state_without_confirmation
              ELSE UNCHANGED Data
          ELSE IF outcome = "parse_error" THEN ResetAfterParseError
          ELSE ApplyLoaded(ps)

\* load_stl(filename): result is how reading the STL ends; companion is the points
\* file next to the new model
load_stl(result, companion) ==
    /\ result \in {"ok", "invalid", "exception"}
    /\ result # "ok" => companion = NoFile
    /\ Handler("load_stl", result)
    /\ IF result = "invalid" THEN UNCHANGED <<Data, actor, disk>>
       ELSE /\ _reset_state_without_confirmation
            /\ actor' = (result = "ok")
            /\ disk' = IF result = "ok" THEN companion ELSE NoFile

\* open_points: with a model loaded, the companion file of the model is loaded;
\* without one, the operator picks a points file and its STL is loaded first
open_points(picked, stl) ==
    IF actor THEN
        /\ picked = disk /\ stl = "ok"
        /\ load_points(disk, FALSE)
        /\ UNCHANGED <<actor, disk>>
    ELSE
        /\ picked.exists
        /\ stl \in {"ok", "invalid", "exception", "missing"}
        /\ IF stl = "ok" THEN
               \* load_stl resets the state before load_points runs
               /\ actor' = TRUE
               /\ disk' = picked
               /\ load_points(picked, TRUE)
           ELSE IF stl = "exception" THEN
               /\ Handler("open_points", "stl_exception")
               /\ _reset_state_without_confirmation
               /\ UNCHANGED <<actor, disk>>
           ELSE
               /\ Handler("open_points", IF stl = "missing" THEN "stl_missing"
                                         ELSE "stl_invalid")
               /\ UNCHANGED <<Data, actor, disk>>

\* save_points with the answer to the overwrite question
save_points(reply) ==
    IF ~actor THEN
        /\ reply = "Yes"
        /\ Handler("save_points", "no_stl")
        /\ UNCHANGED <<Data, actor, disk>>
    ELSE IF disk.exists /\ reply = "No" THEN
        /\ Handler("save_points", "declined")
        /\ UNCHANGED <<Data, actor, disk>>
    ELSE
        LET dres == calculate_distances(all_labels_in_order, points, distance_definitions)
            ares == calculate_angles(all_labels_in_order, points, angle_definitions)
            calc_raises == calculate_angles_raises(angle_definitions)
            write_raises == save_raises(angle_definitions)
        IN /\ reply = "Yes"
           /\ Handler("save_points", IF calc_raises \/ write_raises THEN "failed"
                                     ELSE "saved")
           /\ distances' = dres
           /\ angles' = ares
           /\ disk' = IF calc_raises THEN disk
                      ELSE TextFile(SaveLines(all_labels_in_order, points,
                                              distance_definitions, dres,
                                              angle_definitions, ares))
           /\ unsaved_changes' = IF calc_raises \/ write_raises THEN unsaved_changes
                                 ELSE FALSE
           /\ UNCHANGED <<Registry, Definitions, SelectionVars, actor>>

(***************************************************************************)
(* The specification.                                                      *)
(***************************************************************************)
Picks == 0..(MaxPick - 1)

Next ==
    \/ \E world_pos \in Positions : add_point(world_pos)
    \/ \E world_pos \in Positions : redefine_point(world_pos)
    \/ defer_point
    \/ skip_selected_point
    \/ \E index \in Picks, mode \in {"edit", "delete", "none"} :
           on_point_selected(index, mode)
    \/ \E index \in Picks : on_distance_selected(index)
    \/ \E index \in Picks : on_angle_selected(index)
    \/ \E c \in DialogChoices(2, TRUE) : add_distance_definition(c[1], c[2], c[3], c[4])
    \/ \E reply \in {"Yes", "No"} : remove_selected_distance(reply)
    \/ \E c \in DialogChoices(3, FALSE) : add_angle_definition(c[1], c[2], c[3], c[4])
    \/ \E reply \in {"Yes", "No"} : remove_selected_angle(reply)
    \/ \E reply \in {"Yes", "No"} : clear_all_data(reply)
    \/ \E result \in {"ok", "invalid", "exception"}, companion \in Files \cup {NoFile} :
           load_stl(result, companion)
    \/ \E picked \in Files \cup {disk}, stl \in {"ok", "invalid", "exception", "missing"} :
           open_points(picked, stl)
    \/ \E reply \in {"Yes", "No"} : save_points(reply)

Spec == Init /\ [][Next]_vars

(***************************************************************************)
(* The line loop of load_points on generated files: every sequence of at   *)
(* most MaxLines rows of RowPool is the companion file of a loaded model,  *)
(* and "Open Points" loads it.                                             *)
(***************************************************************************)
MaxLines == 3    \* rows per generated file

\* section headers, canonical rows (one of them holding a colon) and legacy rows
RowPool ==
    << <<"[","p","o","i","n","t","s","]">>,
       <<"[","D","I","S","T","A","N","C","E","S","]">>,
       <<"[","A","n","g","l","e","s","]">>,
       <<"P","o","i","n","t"," ","I",":"," ","1"," ","2"," ","3",TAB,"d","e","f","i",
         "n","e","d",TAB,"1",TAB,"2",TAB,"3">>,
       <<"I",TAB,"s","k","i","p","p","e","d",TAB,TAB,TAB>>,
       <<"I",TAB,"d","e","f","i","n","e","d",TAB,"1",TAB,"2">>,
       <<"P",TAB,"D","e","f","i","n","e","d",TAB,"a",TAB,"b",TAB,"c">>,
       <<"L",TAB,"u","n","k","n","o","w","n",TAB,"1",TAB,"2",TAB,"3">>,
       <<"P","o","i","n","t","-","P","o","i","n","t",TAB,"I",TAB,"P",TAB,TAB,"n","/",
         "a",TAB,"m","m">>,
       <<"A","n","g","l","e",TAB,"I",TAB,"L",TAB,"L","'",TAB,"0",".","0","0",TAB,"d",
         "e","g","r","e","e","s">>,
       <<"I","-","C","C","'",":"," ","n","/","a">>,
       <<"I","-","P","'",":"," ","n","/","a">>,
       <<"P","'","-","L","'",":"," ","n","/","a">>,
       <<"P","o","i","n","t"," ","P",":"," ","s","k","i","p","p","e","d">> >>

RECURSIVE RowSequences(_)
RowSequences(n) ==
    IF n = 0 THEN {<<>>}
    ELSE LET shorter == RowSequences(n - 1) IN
         shorter \cup {Append(f, RowPool[i]) : f \in shorter, i \in DOMAIN RowPool}

PoolFiles == {TextFile(f) : f \in RowSequences(MaxLines) \ {<<>>}}

\* the state load_stl leaves, next to one of the generated files
ParseInit ==
    /\ all_labels_in_order = FIXED_LABELS_CLEFT
    /\ points = AllUndefined(FIXED_LABELS_CLEFT)
    /\ point_count = 0
    /\ distance_definitions = DEFAULT_CLEFT_DIST_DEFS
    /\ distances = EmptyDict
    /\ angle_definitions = DEFAULT_CLEFT_ANGLE_DEFS
    /\ angles = EmptyDict
    /\ selected_point_index = None
    /\ currently_highlighted_point_index = None
    /\ selected_distance_index = None
    /\ selected_angle_index = None
    /\ unsaved_changes = FALSE
    /\ actor = TRUE
    /\ disk \in PoolFiles
    /\ last = [op |-> "load_stl", outcome |-> "ok", args |-> <<>>]
    /\ nops = 0

\* "Open Points" pressed once the model is loaded; a second load of the same
\* file would read the same rows
ParseNext == last.op = "load_stl" /\ open_points(disk, "ok")

ParseSpec == ParseInit /\ [][ParseNext]_vars

(***************************************************************************)
(* A third specification for the index guards of redefine_point,           *)
(* skip_selected_point and delete_point.  The handlers are called as       *)
(* methods, with the index each of them reads (the field                   *)
(* selected_point_index, the parameter index_to_delete) drawn from the     *)
(* rows the operator clicks, the two neighbours of the valid range, and    *)
(* None.  The registry is the one a load of the companion file leaves.     *)
(***************************************************************************)
IndexInputs(n) == {None, Some(0 - 1), Some(n)} \cup {Some(i) : i \in Picks}

\* redefine_point(world_pos) with selected_point_index = index
call_redefine_point(index, world_pos) ==
    IF index = None THEN
        /\ Call("redefine_point", "no_selection", index)
        /\ UNCHANGED <<Data, actor, disk>>
    ELSE IF ~InRange(index, Len(points)) THEN
        /\ Call("redefine_point", "bad_index", index)
        /\ UNCHANGED <<Data, actor, disk>>
    ELSE
        /\ Call("redefine_point", Outcome(calculate_angles_raises(angle_definitions)), index)
        /\ LandmarkChanged([points EXCEPT ![index[1] + 1] = Defined(world_pos)],
                           [Selection EXCEPT !.p = None])

\* a skip that marks the last landmark when the index is past the end
call_skip_selected_point_clamped(index_to_skip) ==
    IF index_to_skip = None THEN
        /\ Call("skip_selected_point", "no_selection", index_to_skip)
        /\ UNCHANGED <<Data, actor, disk>>
    ELSE IF index_to_skip[1] < 0 \/ Len(points) = 0 THEN
        /\ Call("skip_selected_point", "bad_index", index_to_skip)
        /\ SetSelection([Selection EXCEPT !.p = None])
        /\ UNCHANGED <<Registry, Definitions, Results, unsaved_changes, actor, disk>>
    ELSE
        /\ Call("skip_selected_point", Outcome(calculate_angles_raises(angle_definitions)),
                index_to_skip)
        /\ LandmarkChanged(
               [points EXCEPT ![IF index_to_skip[1] < Len(points) THEN index_to_skip[1] + 1
                                ELSE Len(points)] = SKIPPED],
               [Selection EXCEPT !.p = None])

\* skip_selected_point() with selected_point_index = index_to_skip
call_skip_selected_point(index_to_skip) ==
    IF index_to_skip = None THEN
        /\ Call("skip_selected_point", "no_selection", index_to_skip)
        /\ UNCHANGED <<Data, actor, disk>>
    ELSE IF ~InRange(index_to_skip, Len(points)) THEN
        /\ Call("skip_selected_point", "bad_index", index_to_skip)
        /\ SetSelection([Selection EXCEPT !.p = None])
        /\ UNCHANGED <<Registry, Definitions, Results, unsaved_changes, actor, disk>>
    ELSE
        /\ Call("skip_selected_point", Outcome(calculate_angles_raises(angle_definitions)),
                index_to_skip)
        /\ LandmarkChanged([points EXCEPT ![index_to_skip[1] + 1] = SKIPPED],
                           [Selection EXCEPT !.p = None])

\* delete_point(index_to_delete)
call_delete_point(index_to_delete) ==
    IF index_to_delete = None \/ ~InRange(index_to_delete, Len(points)) THEN
        /\ Call("delete_point", "bad_index", index_to_delete)
        /\ UNCHANGED <<Data, actor, disk>>
    ELSE
        /\ Call("delete_point", Outcome(calculate_angles_raises(angle_definitions)),
                index_to_delete)
        /\ delete_point(index_to_delete[1], Selection)

IndexInit ==
    /\ all_labels_in_order = FIXED_LABELS_CLEFT
    /\ points = AllUndefined(FIXED_LABELS_CLEFT)
    /\ point_count = 0
    /\ distance_definitions = DEFAULT_CLEFT_DIST_DEFS
    /\ distances = EmptyDict
    /\ angle_definitions = DEFAULT_CLEFT_ANGLE_DEFS
    /\ angles = EmptyDict
    /\ selected_point_index = None
    /\ currently_highlighted_point_index = None
    /\ selected_distance_index = None
    /\ selected_angle_index = None
    /\ unsaved_changes = FALSE
    /\ actor = TRUE
    /\ disk \in Files
    /\ last = [op |-> "load_stl", outcome |-> "ok", args |-> <<>>]
    /\ nops = 0

IndexNext ==
    \/ last.op = "load_stl" /\ open_points(disk, "ok")
    \/ \E index \in IndexInputs(Len(points)), world_pos \in Positions :
           call_redefine_point(index, world_pos)
    \/ \E index \in IndexInputs(Len(points)) : call_skip_selected_point(index)
    \/ \E index \in IndexInputs(Len(points)) : call_delete_point(index)

IndexSpec == IndexInit /\ [][IndexNext]_vars

(***************************************************************************)
(* The claims.  Undefined(pts) is the set of positions (from 1) whose      *)
(* landmark is Undefined; Lowest(S) the least element of a non-empty set.  *)
(***************************************************************************)
Undefined(pts) == {i \in DOMAIN pts : pts[i] = TO_BE_DEFINED}
Lowest(S) == CHOOSE i \in S : \A j \in S : i <= j

\* C1: in every reachable state the cursor point_count is the index of the
\* lowest-index Undefined landmark, or the number of landmarks when no landmark
\* is Undefined
C1_CursorIsLowestUndefined ==
    IF Undefined(points) = {} THEN point_count = Len(points)
    ELSE point_count = Lowest(Undefined(points)) - 1

\* the cursor stands past a Skipped landmark and before the last landmark
C1_Witness ==
    /\ point_count > 0 /\ point_count < Len(points)
    /\ \E i \in 1..point_count : points[i] = SKIPPED

\* C2: after every operation, the stored result of every distance and angle
\* definition in the lists (a missing entry read as "n/a") is the value a full
\* recomputation from the current landmarks gives
C2_ResultsNeverStale ==
    /\ \A i \in DOMAIN distance_definitions :
           Len(distance_definitions[i]) \in {2, 3} =>
               GetResult(distances, distance_definitions[i])
                   = DistanceValue(all_labels_in_order, points, distance_definitions[i])
    /\ \A i \in DOMAIN angle_definitions :
           Len(angle_definitions[i]) >= 3 =>
               GetResult(angles, angle_definitions[i])
                   = AngleValue(all_labels_in_order, points, angle_definitions[i])

\* C3: the landmark labels are pairwise distinct in every reachable state
C3_LabelsDistinct ==
    \A i, j \in DOMAIN all_labels_in_order :
        i # j => all_labels_in_order[i] # all_labels_in_order[j]

\* C4: a load whose parse raises leaves the labels, the statuses, the definition
\* lists and the results (a missing entry read as "n/a") as they were before
\* load_points was called
C4_FailedLoadKeepsState ==
    [][(actor /\ last'.op = "load_points" /\ last'.outcome = "parse_error") =>
           /\ UNCHANGED <<all_labels_in_order, points, distance_definitions,
                          angle_definitions>>
           /\ \A i \in DOMAIN distance_definitions :
                  GetResult(distances', distance_definitions[i])
                      = GetResult(distances, distance_definitions[i])
           /\ \A i \in DOMAIN angle_definitions :
                  GetResult(angles', angle_definitions[i])
                      = GetResult(angles, angle_definitions[i])]_vars

\* the lines of a file that parse, each taken alone
WellFormedLines(lines) == SelectSeq(lines, LAMBDA l : ~ParseLine(ParseStart, l).raised)

\* C5: a row that cannot be parsed never aborts a load: after load_points of a
\* readable file the landmarks are those of the file with its unparsable rows left
\* out, so every well-formed row before and after such a row is loaded
C5_MalformedRowSkipped ==
    (last.op = "load_points" /\ disk.exists /\ Decodes(disk)) =>
        LET ps == ParseLines(ParseStart, WellFormedLines(disk.lines)) IN
        /\ all_labels_in_order = LoadedLabels(ps)
        /\ points = LoadedPoints(ps)

\* C6: in every reachable state that save_points can write, loading the text
\* save_points produces gives the same labels, the same status per landmark and the
\* same distance and angle definition lists in the same order
C6_RoundTrip ==
    ~(calculate_angles_raises(angle_definitions) \/ save_raises(angle_definitions)) =>
        LET text == SaveLines(all_labels_in_order, points, distance_definitions,
                              calculate_distances(all_labels_in_order, points,
                                                  distance_definitions),
                              angle_definitions,
                              calculate_angles(all_labels_in_order, points,
                                               angle_definitions))
            ps == ParseLines(ParseStart, text)
        IN /\ ~ps.raised
           /\ LoadedLabels(ps) = all_labels_in_order
           /\ LoadedPoints(ps) = points
           /\ LoadedDistanceDefinitions(ps) = distance_definitions
           /\ LoadedAngleDefinitions(ps) = angle_definitions

\* two distance definitions that measure the same thing
EquivalentDistances(d, e) ==
    /\ Len(d) = Len(e)
    /\ IF Len(d) = 2 THEN {d[1], d[2]} = {e[1], e[2]}
       ELSE Len(d) = 3 /\ d[1] = e[1] /\ {d[2], d[3]} = {e[2], e[3]}

\* two angle definitions that measure the same thing
EquivalentAngles(t, u) ==
    /\ Len(t) = 3 /\ Len(u) = 3
    /\ t[2] = u[2] /\ {t[1], t[3]} = {u[1], u[3]}

\* C7: in every reachable state no two distance definitions and no two angle
\* definitions are equivalent (same unordered pair; same apex and unordered line
\* ends; same vertex and unordered arms)
C7_NoEquivalentDefinitions ==
    /\ \A i, j \in DOMAIN distance_definitions :
           i # j => ~EquivalentDistances(distance_definitions[i], distance_definitions[j])
    /\ \A i, j \in DOMAIN angle_definitions :
           i # j => ~EquivalentAngles(angle_definitions[i], angle_definitions[j])

\* C8: add_point, when some landmark is Undefined, sets the lowest-index Undefined
\* landmark to Defined with the picked coordinate and leaves every other status
\* and the label sequence unchanged
C8_DefineNextSetsLowestUndefined ==
    [][(last'.op = "add_point" /\ Undefined(points) # {}) =>
           /\ \E world_pos \in Positions :
                  points' = [points EXCEPT ![Lowest(Undefined(points))] = Defined(world_pos)]
           /\ all_labels_in_order' = all_labels_in_order]_vars

\* add_point has defined a landmark that follows a Skipped one, with Undefined
\* landmarks left after it
C8_Witness ==
    /\ last.op = "add_point" /\ last.outcome = "ok"
    /\ point_count > 1 /\ point_count < Len(points)
    /\ points[point_count].st = "defined"
    /\ \E i \in 1..(point_count - 1) : points[i] = SKIPPED

\* C9: when no landmark is Undefined, add_point and defer_point change neither the
\* statuses, the definitions, the results nor the unsaved-changes flag
C9_NoUndefinedNoEffect ==
    [][(last'.op \in {"add_point", "defer_point"} /\ Undefined(points) = {}) =>
           UNCHANGED <<all_labels_in_order, points, distance_definitions,
                       angle_definitions, distances, angles, unsaved_changes>>]_vars

\* add_point or defer_point was called with every landmark marked
C9_Witness ==
    /\ last.op \in {"add_point", "defer_point"} /\ last.outcome = "all_marked"
    /\ Undefined(points) = {} /\ points # <<>>

\* C10: redefine_point on a selected landmark with a valid index sets that landmark
\* to Defined with the picked coordinate, whatever its status was, and leaves every
\* other status and the label sequence unchanged
C10_RedefineSetsSelected ==
    [][(last'.op = "redefine_point" /\ InRange(selected_point_index, Len(points))) =>
           /\ \E world_pos \in Positions :
                  points' = [points EXCEPT ![selected_point_index[1] + 1]
                                               = Defined(world_pos)]
           /\ all_labels_in_order' = all_labels_in_order]_vars

\* redefine_point has given a coordinate to the landmark P, which the file the
\* state was loaded from holds as skipped
C10_Witness ==
    /\ last.op = "redefine_point" /\ last.outcome = "ok"
    /\ disk = TextFile(AllMarkedLines)
    /\ all_labels_in_order[2] = <<"P">> /\ points[2].st = "defined"

\* the data state after the landmark at index (from 0) became Skipped: only that
\* status changed, the cursor and the results follow from the new statuses
SkippedAt(index) ==
    LET pts == [points EXCEPT ![index + 1] = SKIPPED] IN
    /\ points' = pts
    /\ all_labels_in_order' = all_labels_in_order
    /\ point_count' = IF Undefined(pts) = {} THEN Len(pts) ELSE Lowest(Undefined(pts)) - 1
    /\ distances' = calculate_distances(all_labels_in_order, pts, distance_definitions)
    /\ angles' = calculate_angles(all_labels_in_order, pts, angle_definitions)
    /\ unsaved_changes'
    /\ UNCHANGED <<distance_definitions, angle_definitions>>

\* C11: skip_selected_point on the selected index and delete_point on the clicked
\* index lead to the same data state: the landmark at the index is Skipped without
\* a coordinate, every other landmark and the label sequence are unchanged
C11_SkipAndDeleteAgree ==
    [][/\ (last'.op = "skip_selected_point"
              /\ InRange(selected_point_index, Len(points)))
          => SkippedAt(selected_point_index[1])
       /\ last'.op = "delete_point" => SkippedAt(last'.args[1])]_vars

\* delete_point has made a landmark Skipped
C11_Witness ==
    /\ last.op = "delete_point" /\ last.outcome = "ok"
    /\ points[last.args[1] + 1] = SKIPPED

\* C12: defer_point, when some landmark is Undefined, makes exactly the
\* lowest-index Undefined landmark Skipped, and the cursor afterwards is the
\* next Undefined index, greater than the old cursor, or the number of landmarks
C12_DeferSkipsLowestUndefined ==
    [][(last'.op = "defer_point" /\ Undefined(points) # {}) =>
           /\ points' = [points EXCEPT ![Lowest(Undefined(points))] = SKIPPED]
           /\ all_labels_in_order' = all_labels_in_order
           /\ point_count' > point_count
           /\ point_count' = IF Undefined(points') = {} THEN Len(points')
                             ELSE Lowest(Undefined(points')) - 1]_vars

\* defer_point has made a landmark Skipped and the cursor stands on a later
\* Undefined landmark
C12_Witness ==
    /\ last.op = "defer_point" /\ last.outcome = "ok"
    /\ point_count > 0 /\ point_count < Len(points)
    /\ points[point_count] = SKIPPED
    /\ points[point_count + 1] = TO_BE_DEFINED

\* C13: add_distance_definition rejects (B, A) when the point-point definition
\* (A, B) is present and (X, B, A) when the point-line definition (X, A, B) is
\* present, and accepts (A, X, B), three distinct labels with no equivalent
\* definition present, when (X, A, B) is present
C13_AddDistanceDeduplicates ==
    [][last'.op = "add_distance_definition" =>
           LET a == last'.args
               present == {distance_definitions[i] : i \in DOMAIN distance_definitions}
           IN /\ (a[3] = NONE_CHOICE /\ <<a[2], a[1]>> \in present)
                     => distance_definitions' = distance_definitions
              /\ (a[3] # NONE_CHOICE /\ <<a[1], a[3], a[2]>> \in present)
                     => distance_definitions' = distance_definitions
              /\ (/\ a[3] # NONE_CHOICE
                  /\ a[1] # a[2] /\ a[1] # a[3] /\ a[2] # a[3]
                  /\ <<a[2], a[1], a[3]>> \in present
                  /\ \A d \in present : ~EquivalentDistances(d, a))
                     => distance_definitions' = Append(distance_definitions, a)]_vars

\* a point-line definition (A, X, B) was added with (X, A, B) present
C13_Witness ==
    /\ last.op = "add_distance_definition" /\ last.args[3] # NONE_CHOICE
    /\ \E i \in DOMAIN distance_definitions :
           distance_definitions[i] = <<last.args[2], last.args[1], last.args[3]>>
    /\ distance_definitions[Len(distance_definitions)] = last.args

\* C14: add_angle_definition rejects (B, V, A) when (A, V, B) is present, and
\* accepts (A, B, V), three distinct labels with no equivalent definition present,
\* when (A, V, B) is present
C14_AddAngleDeduplicates ==
    [][last'.op = "add_angle_definition" =>
           LET a == last'.args
               present == {angle_definitions[i] : i \in DOMAIN angle_definitions}
           IN /\ <<a[3], a[2], a[1]>> \in present
                     => angle_definitions' = angle_definitions
              /\ (/\ a[1] # a[2] /\ a[1] # a[3] /\ a[2] # a[3]
                  /\ <<a[1], a[3], a[2]>> \in present
                  /\ \A t \in present : ~EquivalentAngles(t, a))
                     => angle_definitions' = Append(angle_definitions, a)]_vars

\* an angle definition (A, B, V) was added with (A, V, B) present
C14_Witness ==
    /\ last.op = "add_angle_definition"
    /\ \E i \in DOMAIN angle_definitions :
           angle_definitions[i] = <<last.args[1], last.args[3], last.args[2]>>
    /\ angle_definitions[Len(angle_definitions)] = last.args

\* a request add_distance_definition must reject: equal end labels, fewer than
\* three distinct labels, or a definition equivalent to one present
RejectedDistance(a) ==
    IF a[3] = NONE_CHOICE
    THEN \/ a[1] = a[2]
         \/ \E i \in DOMAIN distance_definitions :
                EquivalentDistances(distance_definitions[i], <<a[1], a[2]>>)
    ELSE \/ Cardinality({a[1], a[2], a[3]}) < 3
         \/ \E i \in DOMAIN distance_definitions :
                EquivalentDistances(distance_definitions[i], a)

\* a request add_angle_definition must reject
RejectedAngle(a) ==
    \/ Cardinality({a[1], a[2], a[3]}) < 3
    \/ \E i \in DOMAIN angle_definitions : EquivalentAngles(angle_definitions[i], a)

\* C15: an accepted dialog whose definition is invalid or a duplicate leaves the
\* definition lists, the results and the unsaved-changes flag as they were
C15_RejectedDefinitionChangesNothing ==
    [][(\/ /\ last'.op = "add_distance_definition"
           /\ last'.args[1] # NONE_CHOICE /\ RejectedDistance(last'.args)
        \/ /\ last'.op = "add_angle_definition"
           /\ last'.args[1] # NONE_CHOICE /\ RejectedAngle(last'.args))
       => UNCHANGED <<distance_definitions, angle_definitions, distances, angles,
                      unsaved_changes>>]_vars

\* a reversed angle was asked for after a load, and nothing is unsaved
C15_Witness ==
    /\ last.op = "add_angle_definition" /\ last.args[1] # NONE_CHOICE
    /\ Cardinality({last.args[1], last.args[2], last.args[3]}) = 3
    /\ <<last.args[3], last.args[2], last.args[1]>> \in Range(angle_definitions)
    /\ ~unsaved_changes

\* C16: remove_selected_distance and remove_selected_angle remove exactly the
\* selected definition, keep the others in their order, and keep the stored
\* result (a missing entry read as "n/a") of every other definition
C16_RemoveKeepsOtherResults ==
    [][/\ (last'.op = "remove_selected_distance"
              /\ distance_definitions' # distance_definitions) =>
             LET k == selected_distance_index[1] + 1 IN
             /\ distance_definitions' = RemoveAt(distance_definitions, k - 1)
             /\ \A i \in DOMAIN distance_definitions :
                    distance_definitions[i] # distance_definitions[k] =>
                        GetResult(distances', distance_definitions[i])
                            = GetResult(distances, distance_definitions[i])
       /\ (last'.op = "remove_selected_angle"
              /\ angle_definitions' # angle_definitions) =>
             LET k == selected_angle_index[1] + 1 IN
             /\ angle_definitions' = RemoveAt(angle_definitions, k - 1)
             /\ \A i \in DOMAIN angle_definitions :
                    angle_definitions[i] # angle_definitions[k] =>
                        GetResult(angles', angle_definitions[i])
                            = GetResult(angles, angle_definitions[i])]_vars

\* the landmark a label names (the first one carrying it) is Defined
OperandDefined(label) ==
    \E i \in DOMAIN all_labels_in_order :
        /\ all_labels_in_order[i] = label
        /\ \A j \in 1..(i - 1) : all_labels_in_order[j] # label
        /\ i <= Len(points) /\ points[i].st = "defined"

\* a label no registry of the model holds
ABSENT_LABEL == <<"Z">>

\* operand labels to try: the first three labels of the registry and an absent one
OperandLabels ==
    {all_labels_in_order[i] : i \in {j \in DOMAIN all_labels_in_order : j <= 3}}
        \cup {ABSENT_LABEL}

\* the distance definitions evaluated: those in the list, and every pair and
\* triple of operand labels
DistanceCandidates ==
    {distance_definitions[i] :
         i \in {j \in DOMAIN distance_definitions : Len(distance_definitions[j]) \in {2, 3}}}
        \cup {<<a, b>> : a \in OperandLabels, b \in OperandLabels}
        \cup {<<a, b, c>> : a \in OperandLabels, b \in OperandLabels, c \in OperandLabels}

\* the angle definitions evaluated: those in the list, and every triple of
\* operand labels
AngleCandidates ==
    {angle_definitions[i] :
         i \in {j \in DOMAIN angle_definitions : Len(angle_definitions[j]) >= 3}}
        \cup {<<a, b, c>> : a \in OperandLabels, b \in OperandLabels, c \in OperandLabels}

\* C17: a distance or angle definition with an operand label that is absent from
\* the registry or names a landmark that is Undefined or Skipped evaluates to
\* "n/a"
C17_MissingOperandNotAvailable ==
    /\ \A d \in DistanceCandidates :
           (\E k \in DOMAIN d : ~OperandDefined(d[k])) =>
               DistanceValue(all_labels_in_order, points, d) = NA
    /\ \A t \in AngleCandidates :
           (\E k \in 1..3 : ~OperandDefined(t[k])) =>
               AngleValue(all_labels_in_order, points, t) = NA

\* the list holds a distance between a Defined landmark and an absent label and
\* one between a Defined and a Skipped landmark, both stored as "n/a"
C17_Witness ==
    /\ ABSENT_LABEL \notin Range(all_labels_in_order)
    /\ \E i \in DOMAIN distance_definitions :
           LET d == distance_definitions[i] IN
           /\ Len(d) = 2 /\ OperandDefined(d[1])
           /\ d[2] \notin Range(all_labels_in_order)
           /\ d \in DOMAIN distances /\ distances[d] = NA
    /\ \E i \in DOMAIN distance_definitions :
           LET d == distance_definitions[i] IN
           /\ Len(d) = 2 /\ OperandDefined(d[1])
           /\ \E k \in DOMAIN points : all_labels_in_order[k] = d[2] /\ points[k] = SKIPPED
           /\ d \in DOMAIN distances /\ distances[d] = NA

\* the coordinate of the landmark a label names, for a label with OperandDefined
OperandPos(label) ==
    points[CHOOSE i \in DOMAIN all_labels_in_order :
               /\ all_labels_in_order[i] = label
               /\ \A j \in 1..(i - 1) : all_labels_in_order[j] # label].pos

\* C18: with every operand Defined, a point-line definition whose two line ends
\* have the same coordinates evaluates to "invalid", an angle definition with an
\* arm at the coordinates of the vertex evaluates to "invalid", and a point-point
\* definition never evaluates to "invalid": coincident points give "0.000"
C18_DegenerateIsInvalid ==
    /\ \A d \in DistanceCandidates :
           (\A k \in DOMAIN d : OperandDefined(d[k])) =>
               LET val == DistanceValue(all_labels_in_order, points, d) IN
               IF Len(d) = 3
               THEN OperandPos(d[2]) = OperandPos(d[3]) => val = INVALID
               ELSE /\ val # INVALID
                    /\ OperandPos(d[1]) = OperandPos(d[2])
                           => val = <<"0", ".", "0", "0", "0">>
    /\ \A d \in DistanceCandidates :
           Len(d) = 2 => DistanceValue(all_labels_in_order, points, d) # INVALID
    /\ \A t \in AngleCandidates :
           (/\ \A k \in 1..3 : OperandDefined(t[k])
            /\ \/ OperandPos(t[1]) = OperandPos(t[2])
               \/ OperandPos(t[3]) = OperandPos(t[2]))
               => AngleValue(all_labels_in_order, points, t) = INVALID

\* two landmarks share a coordinate, an angle of the list with one of them as
\* vertex and the other as arm is stored as "invalid", and a point-line definition
\* over three Defined landmarks has them as line ends
C18_Witness ==
    /\ \E t \in DOMAIN angles :
           /\ t[1] # t[2] /\ OperandDefined(t[1]) /\ OperandDefined(t[2])
           /\ OperandDefined(t[3])
           /\ OperandPos(t[1]) = OperandPos(t[2])
           /\ angles[t] = INVALID
    /\ \E d \in DistanceCandidates :
           /\ Len(d) = 3 /\ Cardinality({d[1], d[2], d[3]}) = 3
           /\ \A k \in 1..3 : OperandDefined(d[k])
           /\ OperandPos(d[2]) = OperandPos(d[3])

\* the angle definition (I, L, L') of the scenario
ScenarioAngle == << <<"I">>, <<"L">>, <<"L", "'">> >>

\* I = (0,0,0), L = (0,1,0) and L' = (0,-1,0) are Defined
ScenarioAngleLandmarks ==
    /\ \A k \in 1..3 : OperandDefined(ScenarioAngle[k])
    /\ OperandPos(ScenarioAngle[1]) = <<0, 0, 0>>
    /\ OperandPos(ScenarioAngle[2]) = <<0, 1, 0>>
    /\ OperandPos(ScenarioAngle[3]) = <<0, 0 - 1, 0>>

\* C19: with I = (0,0,0), L = (0,1,0) and L' = (0,-1,0) Defined, the angle
\* definition (I, L, L') evaluates to "0.00°": the vertex is the middle label L,
\* and the arms L -> I and L -> L' point the same way
C19_ScenarioAngleIsZero ==
    ScenarioAngleLandmarks =>
        /\ AngleValue(all_labels_in_order, points, ScenarioAngle)
               = <<"0", ".", "0", "0", DEGREE>>
        /\ ScenarioAngle \in DOMAIN angles
               => angles[ScenarioAngle] = <<"0", ".", "0", "0", DEGREE>>

\* the three landmarks have the coordinates of the scenario and the list of
\* angles holds (I, L, L') with a computed value
C19_Witness ==
    /\ ScenarioAngleLandmarks
    /\ ScenarioAngle \in DOMAIN angles
    /\ angles[ScenarioAngle] \notin {NA, INVALID}

\* C19 as stated: with I = (0,0,0), L = (0,1,0) and L' = (0,-1,0) Defined, the
\* angle definition (I, L, L') evaluates to "90.00°"
C19_ScenarioAngleIsRight ==
    ScenarioAngleLandmarks =>
        AngleValue(all_labels_in_order, points, ScenarioAngle)
            = <<"9", "0", ".", "0", "0", DEGREE>>

\* text of the form d..d.ddd
IsFixed3(val) ==
    /\ Len(val) >= 5
    /\ val[Len(val) - 3] = "."
    /\ \A i \in DOMAIN val : i # Len(val) - 3 => IsDigit(val[i])

\* the number of thousandths a text of the form d..d.ddd stands for
Thousandths(val) == DigitsValue(SelectSeq(val, IsDigit))

\* I = (0,0,0) and P = (3,0,0) are Defined and every other landmark is Undefined
ScenarioDistanceLandmarks ==
    /\ OperandDefined(<<"I">>) /\ OperandPos(<<"I">>) = <<0, 0, 0>>
    /\ OperandDefined(<<"P">>) /\ OperandPos(<<"P">>) = <<3, 0, 0>>
    /\ \A i \in DOMAIN points :
           all_labels_in_order[i] \notin {<<"I">>, <<"P">>}
               => points[i] = TO_BE_DEFINED

\* C20: with I = (0,0,0) and P = (3,0,0) Defined and all others Undefined, the
\* point-point distance (I, P) evaluates to "3.000"; for any two Defined
\* operands (A, B) the result is the Euclidean distance of the two coordinates
\* rounded to 3 decimals, and it is the same for (B, A)
C20_PointPointIsEuclidean ==
    /\ ScenarioDistanceLandmarks =>
           /\ DistanceValue(all_labels_in_order, points, << <<"I">>, <<"P">> >>)
                  = <<"3", ".", "0", "0", "0">>
           /\ << <<"I">>, <<"P">> >> \in DOMAIN distances
                  => distances[<< <<"I">>, <<"P">> >>] = <<"3", ".", "0", "0", "0">>
    /\ \A d \in DistanceCandidates :
           (Len(d) = 2 /\ OperandDefined(d[1]) /\ OperandDefined(d[2])) =>
               LET val == DistanceValue(all_labels_in_order, points, d)
                   rev == DistanceValue(all_labels_in_order, points, <<d[2], d[1]>>)
                   v == Sub(OperandPos(d[1]), OperandPos(d[2]))
                   sq == v[1] * v[1] + v[2] * v[2] + v[3] * v[3]
               IN /\ val = rev
                  /\ IsFixed3(val)
                  /\ LET n == Thousandths(val)
                     IN /\ 4000000 * sq < (2 * n + 1) * (2 * n + 1)
                        /\ n > 0 => (2 * n - 1) * (2 * n - 1) <= 4000000 * sq

\* the scenario's registry, reached by marking I and P, with the result of
\* (I, P) computed and stored
C20_Witness ==
    /\ ScenarioDistanceLandmarks
    /\ << <<"I">>, <<"P">> >> \in DOMAIN distances
    /\ IsFixed3(distances[<< <<"I">>, <<"P">> >>])
    /\ last.op = "add_point"

\* the temp lists the line loop of the last load_points built from its file
LoadedFile == ParseLines(ParseStart, disk.lines)

\* the last handler was a load_points that reached "Load Complete"
LoadCompleted == last.op = "load_points" /\ last.outcome \in {"loaded", "loaded_raised"}

\* C21: after a load in which at least one POINTS row was recognized, the labels
\* of the registry are the labels of the recognized rows in file order, each with
\* the status its row gives; a fixed label the file does not list is not in the
\* registry.  For the file with the single row "I defined 1 2 3" the registry is
\* the one landmark I at (1,2,3)
C21_LoadReplacesRegistry ==
    (LoadCompleted /\ LoadedFile.temp_points_config # <<>>) =>
        /\ all_labels_in_order = LoadedFile.temp_all_labels
        /\ points = LoadedFile.temp_points_config
        /\ \A i \in DOMAIN FIXED_LABELS_CLEFT :
               (\A j \in DOMAIN LoadedFile.temp_all_labels :
                    LoadedFile.temp_all_labels[j] # FIXED_LABELS_CLEFT[i])
                   => \A j \in DOMAIN all_labels_in_order :
                          all_labels_in_order[j] # FIXED_LABELS_CLEFT[i]
        /\ disk.lines = CanonicalPointsOnlyLines =>
               /\ all_labels_in_order = << <<"I">> >>
               /\ points = <<Defined(<<1, 2, 3>>)>>

\* a load of a file with POINTS rows has completed and the registry holds fewer
\* labels than the fixed set
C21_Witness ==
    /\ LoadCompleted
    /\ LoadedFile.temp_points_config # <<>>
    /\ Len(all_labels_in_order) < Len(FIXED_LABELS_CLEFT)
    /\ \E i \in DOMAIN points : points[i] # TO_BE_DEFINED

\* C22: after a load the distance definition list is the list read from the file
\* if it has at least one DISTANCES row and the built-in default list otherwise,
\* and the same holds for the angle list and the ANGLES rows; after the canonical
\* file with only the row "I defined 1 2 3" both default lists are in force and
\* every default distance has the result computed from the loaded registry
C22_DefinitionsReplacedPerSection ==
    LoadCompleted =>
        /\ distance_definitions =
               IF LoadedFile.temp_dist_defs # <<>> THEN LoadedFile.temp_dist_defs
               ELSE DEFAULT_CLEFT_DIST_DEFS
        /\ angle_definitions =
               IF LoadedFile.temp_angle_defs # <<>> THEN LoadedFile.temp_angle_defs
               ELSE DEFAULT_CLEFT_ANGLE_DEFS
        /\ disk.lines = CanonicalPointsOnlyLines =>
               /\ distance_definitions = DEFAULT_CLEFT_DIST_DEFS
               /\ angle_definitions = DEFAULT_CLEFT_ANGLE_DEFS
               /\ points = <<Defined(<<1, 2, 3>>)>>
               /\ \A i \in DOMAIN DEFAULT_CLEFT_DIST_DEFS :
                      /\ DEFAULT_CLEFT_DIST_DEFS[i] \in DOMAIN distances
                      /\ distances[DEFAULT_CLEFT_DIST_DEFS[i]]
                             = DistanceValue(all_labels_in_order, points,
                                             DEFAULT_CLEFT_DIST_DEFS[i])
               /\ \A i \in DOMAIN DEFAULT_CLEFT_ANGLE_DEFS :
                      /\ DEFAULT_CLEFT_ANGLE_DEFS[i] \in DOMAIN angles
                      /\ angles[DEFAULT_CLEFT_ANGLE_DEFS[i]]
                             = AngleValue(all_labels_in_order, points,
                                          DEFAULT_CLEFT_ANGLE_DEFS[i])

\* the canonical file with only a POINTS section has been loaded: the registry
\* is the file's and the definition lists are the default ones
C22_Witness ==
    /\ LoadCompleted
    /\ disk.lines = CanonicalPointsOnlyLines
    /\ LoadedFile.temp_dist_defs = <<>> /\ LoadedFile.temp_angle_defs = <<>>
    /\ points = <<Defined(<<1, 2, 3>>)>>
    /\ distance_definitions = DEFAULT_CLEFT_DIST_DEFS

\* C23: loading a readable file with no recognizable POINTS row ends as a
\* completed load, not as an error, and the registry is the canonical one: the
\* 11 fixed labels in order, all Undefined
C23_NoPointsRowsGivesCanonicalRegistry ==
    (/\ last.op = "load_points"
     /\ disk.exists /\ Decodes(disk)
     /\ LoadedFile.temp_all_labels = <<>>) =>
        /\ LoadCompleted
        /\ all_labels_in_order = FIXED_LABELS_CLEFT
        /\ Len(points) = 11
        /\ \A i \in DOMAIN points : points[i] = TO_BE_DEFINED

\* the file with a DISTANCES section and no POINTS row has been loaded and its
\* distance list is in force
C23_Witness ==
    /\ last.op = "load_points"
    /\ disk.lines = DistancesOnlyLines
    /\ LoadedFile.temp_all_labels = <<>>
    /\ distance_definitions = << << <<"I">>, <<"P">> >> >>

\* C24: a load_points whose file decodes neither as utf-8 nor as cp1250 fails and
\* leaves the labels, the statuses, the cursor, the definition lists and the
\* results as they were; a file that decodes as cp1250 only is loaded from its
\* cp1250 text
C24_DecodeFailureKeepsState ==
    [][last'.op = "load_points" =>
           /\ (disk'.exists /\ disk'.encoding \notin {"utf-8", "cp1250"})
                  => last'.outcome = "unreadable"
           /\ (actor /\ last'.outcome = "unreadable")
                  => UNCHANGED <<all_labels_in_order, points, point_count,
                                 distance_definitions, angle_definitions,
                                 distances, angles>>
           /\ (disk'.exists /\ disk'.encoding = "cp1250") =>
                  LET ps == ParseLines(ParseStart, disk'.lines) IN
                  /\ last'.outcome \in {"loaded", "loaded_raised", "parse_error"}
                  /\ (~ps.raised /\ ps.temp_points_config # <<>>) =>
                         /\ all_labels_in_order' = ps.temp_all_labels
                         /\ points' = ps.temp_points_config]_vars

\* load_points has failed on a file that does not decode, and a landmark marked
\* before the call is still Defined
C24_Witness ==
    /\ last.op = "load_points" /\ last.outcome = "unreadable"
    /\ disk.exists /\ disk.encoding \notin {"utf-8", "cp1250"}
    /\ \E i \in DOMAIN points : points[i].st = "defined"

\* C25: loading the legacy file without sections whose lines are "Point I: 1 2 3"
\* and "Point P: skipped" gives exactly two landmarks, I Defined at (1,2,3) and
\* P Skipped, and the default distance and angle definition lists
C25_LegacyUnsectionedScenario ==
    (/\ last.op = "load_points"
     /\ disk.exists /\ Decodes(disk)
     /\ disk.lines = << <<"P","o","i","n","t"," ","I",":"," ","1"," ","2"," ","3">>,
                        <<"P","o","i","n","t"," ","P",":"," ","s","k","i","p","p","e","d">> >>)
        => /\ last.outcome = "loaded"
           /\ all_labels_in_order = << <<"I">>, <<"P">> >>
           /\ points = <<Defined(<<1, 2, 3>>), SKIPPED>>
           /\ distance_definitions = DEFAULT_CLEFT_DIST_DEFS
           /\ angle_definitions = DEFAULT_CLEFT_ANGLE_DEFS

\* the legacy file without sections has been loaded and I is Defined
C25_Witness ==
    /\ last.op = "load_points" /\ last.outcome = "loaded"
    /\ disk.lines = LegacyUnsectionedLines
    /\ Len(points) = 2 /\ points[1].st = "defined" /\ points[2].st = "skipped"

\* a definition names a label that the registry does not hold
NamesMissingLabel(d) ==
    \E k \in DOMAIN d : \A i \in DOMAIN all_labels_in_order : all_labels_in_order[i] # d[k]

SectionRows(lines, header) ==
    LET h == CHOOSE i \in DOMAIN lines : lines[i] = header
        ends == {i \in DOMAIN lines : i > h /\ lines[i] = <<>>}
        e == IF ends = {} THEN Len(lines) + 1 ELSE Lowest(ends)
    IN SubSeq(lines, h + 2, e - 1)

\* the five fields of a POINTS row agree with a landmark
PointRowAgrees(row, label, landmark) ==
    LET fields == split(row, TAB) IN
    /\ Len(fields) = 5
    /\ fields[1] = label
    /\ fields[2] = CASE landmark.st = "to_be_defined" ->
                            <<"t","o","_","b","e","_","d","e","f","i","n","e","d">>
                     [] landmark.st = "skipped" -> <<"s","k","i","p","p","e","d">>
                     [] landmark.st = "defined" -> <<"d","e","f","i","n","e","d">>
    /\ IF landmark.st = "defined"
       THEN \A k \in 1..3 : /\ IsFloat(fields[2 + k])
                            /\ FloatValue(fields[2 + k]) = landmark.pos[k]
       ELSE \A k \in 1..3 : fields[2 + k] = <<>>

\* C27: the file save_points writes has one POINTS row per landmark, in registry
\* order, with the status field to_be_defined, skipped or defined as the landmark
\* is and with the three coordinate fields blank unless it is Defined; a call of
\* save_points changes no label, no landmark status and no definition list
C27_SaveWritesOneRowPerLandmark ==
    [][last'.op = "save_points" =>
           /\ UNCHANGED <<all_labels_in_order, points, point_count,
                          distance_definitions, angle_definitions>>
           /\ last'.outcome = "saved" =>
                  LET rows == SectionRows(disk'.lines, <<"[","P","O","I","N","T","S","]">>)
                  IN /\ Len(rows) = Len(points)
                     /\ \A i \in DOMAIN rows :
                            PointRowAgrees(rows[i], all_labels_in_order[i], points[i])]_vars

\* save_points has written a registry that holds a Defined landmark and one
\* that is Skipped
C27_Witness ==
    /\ last.op = "save_points" /\ last.outcome = "saved"
    /\ \E i \in DOMAIN points : points[i].st = "defined"
    /\ \E i \in DOMAIN points : points[i].st = "skipped"
    /\ Len(SectionRows(disk.lines, <<"[","P","O","I","N","T","S","]">>)) = Len(points)

\* save_points has just written the whole file
Saved == last.op = "save_points" /\ last.outcome = "saved"

\* the ANGLES data rows of the file on disk, each split at the tabs
SavedAngleFields ==
    LET rows == SectionRows(disk.lines, <<"[","A","N","G","L","E","S","]">>)
    IN [i \in DOMAIN rows |-> split(rows[i], TAB)]

\* C28: each ANGLES data row written by save_points has six tab-separated
\* fields: the type "Angle", the first arm, the vertex, the second arm, the
\* value without the degree sign and the unit "degrees"; load_points reads the
\* arms and the vertex from the second, third and fourth field, so the rows read
\* back are the angle definitions that were saved
C28_AngleRowsHaveTypeField ==
    Saved =>
        /\ Len(SavedAngleFields) = Len(angle_definitions)
        /\ \A i \in DOMAIN SavedAngleFields :
               LET fields == SavedAngleFields[i]
                   triplet == angle_definitions[i]
               IN /\ Len(fields) = 6
                  /\ fields[1] = <<"A","n","g","l","e">>
                  /\ <<fields[2], fields[3], fields[4]>> = triplet
                  /\ fields[5] = remove(GetResult(angles, triplet), DEGREE)
                  /\ fields[6] = <<"d","e","g","r","e","e","s">>
        /\ LoadedFile.temp_angle_defs = angle_definitions

\* save_points has written a file with an angle whose value is a number
C28_Witness ==
    /\ Saved
    /\ angle_definitions # <<>>
    /\ \E i \in DOMAIN SavedAngleFields :
           /\ Len(SavedAngleFields[i]) = 6
           /\ IsFloat(SavedAngleFields[i][5])

\* C28 as stated: each ANGLES data row written by save_points has the five
\* fields p1, vertex, p2, value, unit, the first field being the first arm
C28_AngleRowsFiveFields ==
    Saved =>
        \A i \in DOMAIN SavedAngleFields :
            /\ Len(SavedAngleFields[i]) = 5
            /\ SavedAngleFields[i][1] = angle_definitions[i][1]

\* the last handler ran _reset_state_without_confirmation and nothing after it
ResetDone ==
    \/ last.op = "clear_all_data" /\ last.outcome = "Yes"
    \/ last.op = "load_points" /\ last.outcome = "missing"
    \/ last.op = "load_stl" /\ last.outcome \in {"ok", "exception"}
    \/ last.op = "open_points" /\ last.outcome = "stl_exception"

\* C29: after a reset, from whatever state, the registry is the 11 fixed labels
\* in their fixed order, every landmark is Undefined, the cursor is at index 0,
\* the two definition lists are the default ones and no definition has a
\* computed result
C29_ResetGivesCanonicalState ==
    ResetDone =>
        /\ all_labels_in_order =
               << <<"I">>, <<"P">>, <<"P","'">>, <<"L">>, <<"L","'">>, <<"C">>,
                  <<"C","'">>, <<"Q">>, <<"Q","'">>, <<"T">>, <<"T","'">> >>
        /\ Len(points) = 11
        /\ \A i \in DOMAIN points : points[i] = TO_BE_DEFINED
        /\ point_count = 0
        /\ find_next_undefined_index(points) = Some(0)
        /\ distance_definitions = DEFAULT_CLEFT_DIST_DEFS
        /\ angle_definitions = DEFAULT_CLEFT_ANGLE_DEFS
        /\ \A i \in DOMAIN distance_definitions :
               GetResult(distances, distance_definitions[i]) = NA
        /\ \A i \in DOMAIN angle_definitions :
               GetResult(angles, angle_definitions[i]) = NA

\* "Clear All" has been confirmed as the last of three handler calls on a model
\* whose companion file exists
C29_Witness ==
    /\ last.op = "clear_all_data" /\ last.outcome = "Yes"
    /\ nops = MaxOps
    /\ actor /\ disk.exists

\* C30: after any load every angle definition in force has exactly three labels
\* and every distance definition has two or three, and the recomputation that
\* follows the load evaluates every definition without raising; a legacy ANGLES
\* row that does not split on "-" into three parts is not stored
C30_LoadedDefinitionsWellFormed ==
    LoadCompleted =>
        /\ \A i \in DOMAIN angle_definitions : Len(angle_definitions[i]) = 3
        /\ \A i \in DOMAIN distance_definitions : Len(distance_definitions[i]) \in {2, 3}
        /\ last.outcome # "loaded_raised"

\* the parse state of the line loop after the first k lines of the file on disk
PrefixState(k) == ParseLines(ParseStart, SubSeq(disk.lines, 1, k))

\* the section a bracket header names, "None" for any other line
HeaderSection(line) ==
    CASE upper(line) = <<"[","P","O","I","N","T","S","]">> -> "POINTS"
      [] upper(line) = <<"[","D","I","S","T","A","N","C","E","S","]">> -> "DISTANCES"
      [] upper(line) = <<"[","A","N","G","L","E","S","]">> -> "ANGLES"
      [] OTHER -> "None"

\* a stripped line is a column header row of a canonical table
IsColumnHeader(line) ==
    \/ startswith(lower(line), <<"l","a","b","e","l",TAB>>)
    \/ startswith(lower(line), <<"t","y","p","e",TAB>>)

\* C31: at every line of a file, a bracket header ([POINTS], [DISTANCES],
\* [ANGLES], in any case) switches the current section and adds no row; a line
\* with a tab is read by its tab-separated fields in the current section, also
\* when it holds a colon: under POINTS it adds one landmark labelled by its first
\* field, under DISTANCES and ANGLES it adds no landmark and at most one
\* definition made of its second to fourth fields, and under no section it adds
\* nothing
C31_HeadersSwitchTabsSelectCanonical ==
    \A k \in 0..(Len(disk.lines) - 1) :
        LET ps == PrefixState(k)
            nx == PrefixState(k + 1)
            line == strip(disk.lines[k + 1])
            fields == split(line, TAB)
        IN ~ps.raised =>
           /\ HeaderSection(line) # "None" =>
                  nx = [ps EXCEPT !.current_section = HeaderSection(line)]
           /\ (HeaderSection(line) = "None" /\ Contains(line, TAB)
                   /\ ~IsColumnHeader(line)) =>
                  /\ nx.current_section = ps.current_section
                  /\ ~nx.raised
                  /\ ps.current_section = "None" => nx = ps
                  /\ ps.current_section = "POINTS" =>
                         /\ nx.temp_all_labels = Append(ps.temp_all_labels, fields[1])
                         /\ Len(nx.temp_points_config) = Len(ps.temp_points_config) + 1
                         /\ nx.temp_dist_defs = ps.temp_dist_defs
                         /\ nx.temp_angle_defs = ps.temp_angle_defs
                  /\ ps.current_section = "DISTANCES" =>
                         /\ nx.temp_all_labels = ps.temp_all_labels
                         /\ nx.temp_points_config = ps.temp_points_config
                         /\ nx.temp_angle_defs = ps.temp_angle_defs
                         /\ nx.temp_dist_defs \in
                                {ps.temp_dist_defs}
                                \cup {Append(ps.temp_dist_defs, SubSeq(fields, 2, n)) :
                                          n \in {3, 4} \cap DOMAIN fields}
                  /\ ps.current_section = "ANGLES" =>
                         /\ nx.temp_all_labels = ps.temp_all_labels
                         /\ nx.temp_points_config = ps.temp_points_config
                         /\ nx.temp_dist_defs = ps.temp_dist_defs
                         /\ nx.temp_angle_defs \in
                                {ps.temp_angle_defs}
                                \cup {Append(ps.temp_angle_defs, SubSeq(fields, 2, 4)) :
                                          n \in {4} \cap DOMAIN fields}

\* a file has been loaded whose [points] section holds a row with a tab and a
\* colon: the landmark carries the whole first field as its label
C31_Witness ==
    /\ LoadCompleted
    /\ \E k \in 1..(Len(disk.lines) - 1) :
           /\ HeaderSection(strip(disk.lines[k])) = "POINTS"
           /\ Contains(disk.lines[k + 1], TAB) /\ Contains(disk.lines[k + 1], ":")
    /\ \E i \in DOMAIN all_labels_in_order : Contains(all_labels_in_order[i], ":")

\* the definition a legacy DISTANCES row "<p0>-<rest>: <value>" stands for
LegacyDistanceOf(p0, rest) ==
    LET bare == SelectSeq(rest, LAMBDA c : c # "'") IN
    IF Len(bare) >= 2 /\ bare[2] = rest[1]
    THEN <<p0, <<rest[1]>>, SubSeq(rest, 2, Len(rest))>>
    ELSE <<p0, rest>>

\* the definition the line loop appended at line k + 1, <<>> if it appended none
AppendedDistance(k) ==
    LET before == PrefixState(k).temp_dist_defs
        after == PrefixState(k + 1).temp_dist_defs
    IN IF Len(after) = Len(before) + 1 /\ SubSeq(after, 1, Len(before)) = before
       THEN after[Len(after)] ELSE <<>>

\* C32: under [DISTANCES] a legacy row "<p0>-<rest>: <value>" is read as the
\* point-line definition (p0, rest[0], rest[1:]) exactly when <rest> without its
\* apostrophes has at least two characters and its second character equals the
\* first character of <rest>, and as the point-point definition (p0, rest)
\* otherwise: "I-CC'" gives (I, C, C'), "I-P'" gives (I, P') and "P'-L'" gives
\* (P', L')
C32_LegacyDistanceHeuristic ==
    \A k \in 0..(Len(disk.lines) - 1) :
        LET ps == PrefixState(k)
            line == strip(disk.lines[k + 1])
            colon == FirstIndex(line, ":")
            def_part == strip(SubSeq(line, 1, colon - 1))
            dash == FirstIndex(def_part, "-")
        IN (/\ ~ps.raised
            /\ ps.current_section = "DISTANCES"
            /\ ~Contains(line, TAB) /\ Contains(line, ":")
            /\ Contains(def_part, "-")) =>
               /\ AppendedDistance(k) =
                      LegacyDistanceOf(strip(SubSeq(def_part, 1, dash - 1)),
                                       strip(SubSeq(def_part, dash + 1, Len(def_part))))
               /\ def_part = <<"I","-","C","C","'">> =>
                      AppendedDistance(k) = << <<"I">>, <<"C">>, <<"C","'">> >>
               /\ def_part = <<"I","-","P","'">> =>
                      AppendedDistance(k) = << <<"I">>, <<"P","'">> >>
               /\ def_part = <<"P","'","-","L","'">> =>
                      AppendedDistance(k) = << <<"P","'">>, <<"L","'">> >>

\* a file with the legacy rows "I-CC'" and "I-P'" under [DISTANCES] has been
\* loaded: the list in force is the point-line (I, C, C') and the pair (I, P')
C32_Witness ==
    /\ LoadCompleted
    /\ distance_definitions =
           << << <<"I">>, <<"C">>, <<"C","'">> >>, << <<"I">>, <<"P","'">> >> >>

(***************************************************************************)
(* C33.  redefine_point, skip_selected_point and delete_point called with  *)
(* an index outside 0..len-1, or with no index, change no landmark, no     *)
(* definition, no result and not the cursor.                               *)
(***************************************************************************)
IndexGuardedCall ==
    /\ nops' = nops + 1
    /\ last'.op \in {"redefine_point", "skip_selected_point", "delete_point"}
    /\ ~InRange(last'.args, Len(points))

\* C33: a call of redefine_point, skip_selected_point or delete_point whose index
\* is None or outside 0..len-1 leaves the labels, the landmarks, the cursor,
\* both definition lists and both result maps as they were
C33_BadIndexChangesNothing ==
    [][IndexGuardedCall => UNCHANGED <<Registry, Definitions, Results>>]_vars

\* a skip with an index one past the end, after a load that left landmarks marked
C33_Witness ==
    /\ last.op = "skip_selected_point"
    /\ last.args = Some(Len(points))
    /\ \E i \in DOMAIN points : points[i] # TO_BE_DEFINED
    /\ nops = 2

(***************************************************************************)
(* C34.  A canonical POINTS row of at least two fields contributes exactly *)
(* one landmark, whatever its status and coordinates are.                  *)
(***************************************************************************)
\* the status field of a canonical POINTS row names a defined landmark with three
\* coordinates that float() accepts
RowIsDefined(fields) ==
    /\ lower(fields[2]) = S_defined
    /\ Len(fields) >= 5
    /\ \A i \in 3..5 : IsFloat(fields[i])

\* line k + 1 of the file is a canonical row of at least two fields read under
\* [POINTS]: it holds a tab and is neither a bracket header nor a column header
IsCanonicalPointsRow(k) ==
    LET line == strip(disk.lines[k + 1]) IN
    /\ ~PrefixState(k).raised
    /\ PrefixState(k).current_section = "POINTS"
    /\ line # <<>> /\ Head(line) # "#"
    /\ HeaderSection(line) = "None"
    /\ Contains(line, TAB) /\ ~IsColumnHeader(line)
    /\ Len(split(line, TAB)) >= 2

\* C34: every canonical (tab) POINTS row with at least two fields adds exactly one
\* landmark, labelled by its first field, and the loop goes on: the landmark is
\* defined when the status is "defined" and three coordinates parse, skipped when
\* the status is "skipped", and to_be_defined in every other case (unknown
\* status, "defined" with fewer than five fields, non-numeric coordinates)
C34_CanonicalPointsRowGivesOneLandmark ==
    \A k \in 0..(Len(disk.lines) - 1) :
        LET ps == PrefixState(k)
            nx == PrefixState(k + 1)
            fields == split(strip(disk.lines[k + 1]), TAB)
            added == nx.temp_points_config[Len(nx.temp_points_config)]
        IN IsCanonicalPointsRow(k) =>
           /\ ~nx.raised
           /\ nx.temp_all_labels = Append(ps.temp_all_labels, fields[1])
           /\ Len(nx.temp_points_config) = Len(ps.temp_points_config) + 1
           /\ SubSeq(nx.temp_points_config, 1, Len(ps.temp_points_config))
                  = ps.temp_points_config
           /\ IF RowIsDefined(fields) THEN
                  /\ added.st = "defined"
                  /\ added.pos = <<FloatValue(fields[3]), FloatValue(fields[4]),
                                   FloatValue(fields[5])>>
              ELSE IF lower(fields[2]) = S_skipped THEN added = SKIPPED
              ELSE added = TO_BE_DEFINED

\* a file whose [POINTS] section holds a row of unknown status and a row with
\* non-numeric coordinates has been loaded: both landmarks are in the registry,
\* to be defined
C34_Witness ==
    /\ LoadCompleted
    /\ Len(disk.lines) = 3
    /\ \A k \in 1..2 : IsCanonicalPointsRow(k)
    /\ lower(split(disk.lines[2], TAB)[2]) \notin {S_defined, S_skipped}
    /\ lower(split(disk.lines[3], TAB)[2]) = S_defined
    /\ Len(split(disk.lines[3], TAB)) >= 5
    /\ points = <<TO_BE_DEFINED, TO_BE_DEFINED>>
    /\ all_labels_in_order = << split(disk.lines[2], TAB)[1], split(disk.lines[3], TAB)[1] >>

(***************************************************************************)
(* C35.  The landmark list and the label list have the same length.        *)
(***************************************************************************)
\* C35: in every reachable state points and all_labels_in_order have the same
\* length, after a load from any file and after a failed load too
C35_StatusAndLabelListsAligned == Len(points) = Len(all_labels_in_order)

\* a load has failed on a legacy point row whose coordinates are not numbers,
\* after the row's label was appended to the labels of the file
C35_Witness ==
    /\ last.op = "load_points"
    /\ last.outcome = "parse_error"
    /\ Len(LoadedFile.temp_all_labels) > Len(LoadedFile.temp_points_config)

(***************************************************************************)
(* C36.  No handler but a reset or a load turns a marked landmark back to  *)
(* Undefined.                                                              *)
(***************************************************************************)
\* the handlers that replace the registry: the reset and the loads
ReplacesRegistry(op) == op \in {"clear_all_data", "load_stl", "open_points", "load_points"}

\* C36: a call of add_point, redefine_point, skip_selected_point, delete_point or
\* defer_point (or of any handler that is not a reset or a load) keeps the labels
\* and leaves every Defined or Skipped landmark Defined or Skipped, so the set of
\* Undefined landmarks never grows between two resets or loads
C36_MarkedLandmarksStayMarked ==
    [][(nops' = nops + 1 /\ ~ReplacesRegistry(last'.op)) =>
           /\ all_labels_in_order' = all_labels_in_order
           /\ DOMAIN points' = DOMAIN points
           /\ Undefined(points') \subseteq Undefined(points)]_vars

\* a Defined landmark has been selected and skipped: it is Skipped, not Undefined
C36_Witness ==
    /\ last.op = "skip_selected_point"
    /\ last.outcome = "ok"
    /\ nops = 3
    /\ \E i \in DOMAIN points : points[i] = SKIPPED
    /\ \E i \in DOMAIN points : points[i].st = "defined"

(***************************************************************************)
(* C37.  add_point and defer_point each take one landmark out of the       *)
(* Undefined ones; nothing else but a reset or a load changes their        *)
(* number, so k calls exhaust k Undefined landmarks.                       *)
(***************************************************************************)
DefinesNext(op) == op \in {"add_point", "defer_point"}

\* C37: a call of add_point or defer_point with an Undefined landmark left takes
\* exactly one landmark, the lowest, out of the Undefined ones; every other
\* handler that is not a reset or a load leaves the Undefined ones as they are;
\* and once none is left find_next_undefined_index answers None, the cursor is
\* the length of the list, and add_point and defer_point change nothing.  So
\* from k Undefined landmarks, without a reset or load, exactly k calls bring
\* the cursor to "none" and every further call is a no-op.
C37_EachCallTakesOneUndefined ==
    [][nops' = nops + 1 =>
           /\ (DefinesNext(last'.op) /\ Undefined(points) # {}) =>
                  /\ Undefined(points') = Undefined(points) \ {Lowest(Undefined(points))}
                  /\ Cardinality(Undefined(points')) = Cardinality(Undefined(points)) - 1
                  /\ Undefined(points') = {} =>
                         /\ find_next_undefined_index(points') = None
                         /\ point_count' = Len(points')
           /\ (DefinesNext(last'.op) /\ Undefined(points) = {}) =>
                  /\ find_next_undefined_index(points) = None
                  /\ UNCHANGED <<Registry, Definitions, Results, unsaved_changes>>
           /\ (~DefinesNext(last'.op) /\ ~ReplacesRegistry(last'.op)) =>
                  Undefined(points') = Undefined(points)]_vars

\* a file with exactly one Undefined landmark was loaded; one call marked it and
\* brought the cursor to "none", and the call after it had nothing to mark
C37_Witness ==
    /\ DefinesNext(last.op)
    /\ last.outcome = "all_marked"
    /\ nops = 3
    /\ Cardinality(Undefined(LoadedPoints(LoadedFile))) = 1
    /\ Undefined(points) = {}
    /\ point_count = Len(points)
    /\ unsaved_changes

(***************************************************************************)
(* C38.  unsaved_changes follows the mutations: set by each of them,       *)
(* cleared by a reset, a load and a successful save only.                  *)
(***************************************************************************)
\* the handler call of the step went through to its change
Mutated ==
    \/ /\ last'.op \in {"add_point", "redefine_point", "defer_point",
                        "skip_selected_point", "delete_point"}
       /\ last'.outcome \in {"ok", "raised"}
    \/ /\ last'.op \in {"add_distance_definition", "add_angle_definition"}
       /\ last'.outcome \in {"added", "added_raised"}
    \/ /\ last'.op \in {"remove_selected_distance", "remove_selected_angle"}
       /\ last'.outcome \in {"removed", "removed_raised"}

\* C38: every successful mutation (add_point, redefine_point, skip_selected_point,
\* delete_point, defer_point, an accepted add of a definition, a confirmed
\* removal) sets unsaved_changes; only a reset, a load and a successful save
\* clear it; and no other handler changes the labels, the landmarks or the
\* definitions without setting it, so unsaved_changes is set whenever they
\* differ from the last saved, loaded or reset state
C38_FlagFollowsMutations ==
    [][nops' = nops + 1 =>
           /\ Mutated => unsaved_changes'
           /\ (unsaved_changes /\ ~unsaved_changes') =>
                  \/ ReplacesRegistry(last'.op)
                  \/ last'.op = "save_points" /\ last'.outcome = "saved"
           /\ (~ReplacesRegistry(last'.op)
                   /\ <<all_labels_in_order, points, Definitions>>'
                          # <<all_labels_in_order, points, Definitions>>) =>
                  unsaved_changes']_vars

(***************************************************************************)
(* C39.  load_points on a path that does not exist resets the state; with  *)
(* no model loaded it changes nothing.                                     *)
(***************************************************************************)
\* C39: with a model loaded, load_points on a path that does not exist leaves,
\* from whatever state, the fixed labels, every landmark to_be_defined, the
\* cursor at 0, the default definition lists, no result and unsaved_changes
\* cleared; with no model loaded (the STL next to the picked file is not a valid
\* model) load_points changes no landmark, definition, result or flag
C39_MissingFileResets ==
    [][nops' = nops + 1 =>
           /\ (actor /\ last'.op = "load_points" /\ last'.outcome = "missing") =>
                  /\ all_labels_in_order' = FIXED_LABELS_CLEFT
                  /\ points' = AllUndefined(FIXED_LABELS_CLEFT)
                  /\ point_count' = 0
                  /\ distance_definitions' = DEFAULT_CLEFT_DIST_DEFS
                  /\ angle_definitions' = DEFAULT_CLEFT_ANGLE_DEFS
                  /\ distances' = EmptyDict
                  /\ angles' = EmptyDict
                  /\ ~unsaved_changes'
           /\ (~actor /\ last'.op = "open_points" /\ last'.outcome = "stl_invalid") =>
                  UNCHANGED <<Registry, Definitions, Results, unsaved_changes>>]_vars

\* a model without a companion file was loaded, a landmark was marked, and the
\* load of the missing companion file has put the state back to the default one
C39_Witness ==
    /\ last.op = "load_points"
    /\ last.outcome = "missing"
    /\ nops = 3
    /\ actor
    /\ ~disk.exists
    /\ points = AllUndefined(FIXED_LABELS_CLEFT)
    /\ ~unsaved_changes
====
